---- MODULE Spec2Model ----
(***************************************************************************)
(* AIHarness: the multi-project MCP protocol and storage core.             *)
(*                                                                         *)
(* The ordered stores (todos, context notes), the default-flagged store    *)
(* (build commands), the two JSON-RPC dispatchers (standalone McpServer    *)
(* over stdio, embedded handle_mcp_request over HTTP) and the event bus    *)
(* of AppState, each translated statement by statement from src-tauri/src. *)
(***************************************************************************)
EXTENDS Integers, Sequences, FiniteSets, TLC

VARIABLES
    todos,          \* project id -> rows of the todos table of that project's db
    notes,          \* project id -> rows of the context_notes table
    builds,         \* project id -> rows of the build_commands table
    nextId,         \* number of ids handed out so far (uuid::Uuid::new_v4 is fresh)
    last,           \* outcome of the last store-level call
    state,          \* McpServer.state
    mreq,           \* the request McpServer::handle_request was last called with
    mresp,          \* last JsonRpcResponse of McpServer::handle_request
    stdin_read,     \* lines run_stdio has consumed
    stdout,         \* response lines run_stdio has written
    hresp,          \* last JsonRpcResponse of handle_mcp_request
    registry,       \* ids of the rows of the projects table
    cache,          \* ProjectStoreCache.stores: project id -> the cached ProjectStore
    event_history,  \* AppState.event_history, newest first
    evSeq,          \* number of ToolCallEvents inserted into the history so far
    rec,            \* recorder task -> its position inside record_event
    stdin,          \* the lines run_stdio has consumed, oldest first
    pin,            \* the lines run_stdio_proxy has consumed, oldest first
    posts,          \* the HTTP POSTs run_stdio_proxy has made, with their outcomes
    pout,           \* the lines run_stdio_proxy has written to its stdout
    event_sender,   \* AppState.event_sender: the broadcast channel
    receivers,      \* the broadcast::Receivers handed out by subscribe()
    pending,        \* recorder task -> id of the event it is recording
    opening,        \* command task -> its position inside get_project_store
    running,        \* command task -> the call it is inside, statement by statement
    http_server,    \* AppState.http_server: Option<ServerHandle>
    serving         \* the spawned server tasks that hold the listener

storeVars == <<todos, notes, builds, nextId, last>>
mcpVars   == <<state, mreq, mresp, stdin_read, stdout, stdin>>
httpVars  == <<hresp, registry, cache, opening, http_server, serving>>
busVars   == <<event_history, evSeq, rec>>
proxyVars == <<pin, posts, pout>>
chanVars  == <<event_sender, receivers, pending>>
vars == <<todos, notes, builds, nextId, last, state, mreq, mresp, stdin_read, stdout,
          hresp, registry, cache, event_history, evSeq, rec,
          stdin, pin, posts, pout, event_sender, receivers, pending, opening,
          running, http_server, serving>>

----------------------------------------------------------------------------
(* Bounds of the model *)

MaxIds == 3          \* ids (rows ever inserted) per behaviour
BelowZero == 1       \* how far below 0 an explicit position argument goes
MaxPos == 3          \* largest explicit position argument

Projects == {"default", "alpha"}
StoreProject == "default"

\* ProjectInfo.db_path: <root_path>/.aiharness/project.db, named here after the
\* root. The project "beta" is the one create_project makes on the root
\* directory that "alpha" was made on.
db_path(project_id) == IF project_id = "beta" THEN "alpha" ELSE project_id

\* Option<T> is the set of at most one T
None == {}
Some(x) == {x}
Get(o) == CHOOSE x \in o : TRUE

Ids == 1..MaxIds
PosRange == (0 - BelowZero)..MaxPos
PosOpts == {None} \cup {Some(n) : n \in PosRange}

SetMax(S) == CHOOSE x \in S : \A y \in S : y <= x

----------------------------------------------------------------------------
(* Ordered Entity Store: the SQL statements of todos.rs / context_notes.rs *)
(* as operators on a table (a set of rows keyed by id).                    *)

Positions(rows) == {r.position : r \in rows}

\* shift_positions that leaves the row at `start` itself in place
shift_positions_After(rows, start, delta) ==
    {IF r.position > start THEN [r EXCEPT !.position = @ + delta] ELSE r : r \in rows}

\* UPDATE t SET position = position + delta WHERE position >= start
shift_positions(rows, start, delta) ==
    {IF r.position >= start THEN [r EXCEPT !.position = @ + delta] ELSE r : r \in rows}

\* SELECT position FROM t WHERE id = ?1   (id is the PRIMARY KEY)
find_position(rows, id) == {r.position : r \in {x \in rows : x.id = id}}

\* SELECT MAX(position) FROM t; max.unwrap_or(-1) + 1
next_position(rows) ==
    (IF rows = {} THEN 0 - 1 ELSE SetMax(Positions(rows))) + 1

\* the first UPDATE of move_to without its upper limit: every later row moves down
MoveShiftDown_NoLimit(rows, cur, new) ==
    {IF r.position > cur THEN [r EXCEPT !.position = @ - 1] ELSE r : r \in rows}

\* UPDATE t SET position = position - 1 WHERE position > cur AND position <= new
\* the first UPDATE of move_to taking the moved row along
MoveShiftDown_FromCurrent(rows, cur, new) ==
    {IF r.position >= cur /\ r.position <= new
        THEN [r EXCEPT !.position = @ - 1] ELSE r : r \in rows}

MoveShiftDown(rows, cur, new) ==
    {IF r.position > cur /\ r.position <= new
        THEN [r EXCEPT !.position = @ - 1] ELSE r : r \in rows}

\* the second UPDATE of move_to leaving the row at the target where it is
MoveShiftUp_AfterTarget(rows, cur, new) ==
    {IF r.position > new /\ r.position < cur
        THEN [r EXCEPT !.position = @ + 1] ELSE r : r \in rows}

\* UPDATE t SET position = position + 1 WHERE position >= new AND position < cur
MoveShiftUp(rows, cur, new) ==
    {IF r.position >= new /\ r.position < cur
        THEN [r EXCEPT !.position = @ + 1] ELSE r : r \in rows}

\* UPDATE t SET position = ?1, updated_at = ?2 WHERE id = ?3
\* (updated_at is kept as what a reader can tell of it: still the created_at
\* the INSERT gave it, or a later reading of the clock)
MoveAssign(rows, id, new) ==
    {IF r.id = id THEN [r EXCEPT !.position = new, !.updated_at = "later"] ELSE r :
        r \in rows}

\* the table after add(.., position) has inserted the row `id`
AddRows(rows, row, posOpt) ==
    LET position == IF posOpt = None THEN next_position(rows) ELSE Get(posOpt)
    IN  shift_positions(rows, position, 1) \cup {[row EXCEPT !.position = position]}

\* remove that deletes the row and leaves the others where they are
RemoveRows_NoShift(rows, id) == {r \in rows : r.id # id}

\* the table after a successful remove(id)
RemoveRows(rows, id) ==
    LET position == find_position(rows, id)
        kept == {r \in rows : r.id # id}
    IN  IF position # None THEN shift_positions(kept, Get(position) + 1, 0 - 1) ELSE kept

\* move_to without the early return on current_position == new_position
MoveRows_NoEarlyReturn(rows, id, new_position) ==
    LET current_position == Get(find_position(rows, id))
    IN  IF new_position > current_position
        THEN MoveAssign(MoveShiftDown(rows, current_position, new_position),
                        id, new_position)
        ELSE MoveAssign(MoveShiftUp(rows, current_position, new_position),
                        id, new_position)

\* the table after move_to(id, new_position) on a present id
MoveRows(rows, id, new_position) ==
    LET current_position == Get(find_position(rows, id))
    IN  IF current_position = new_position THEN rows
        ELSE IF new_position > current_position
             THEN MoveAssign(MoveShiftDown(rows, current_position, new_position),
                             id, new_position)
             ELSE MoveAssign(MoveShiftUp(rows, current_position, new_position),
                             id, new_position)

\* UPDATE todos SET completed = ?1, updated_at = ?2 WHERE id = ?3
SetCompletedRows(rows, id, completed) ==
    {IF r.id = id THEN [r EXCEPT !.completed = completed, !.updated_at = "later"] ELSE r :
        r \in rows}

\* get_next without its WHERE clause: the first row, completed or not
get_next_AnyRow(rows) == {r \in rows : \A x \in rows : r.position <= x.position}

\* SELECT .. FROM todos WHERE completed = 0 ORDER BY position ASC LIMIT 1
get_next(rows) ==
    LET open == {r \in rows : ~r.completed}
    IN  {r \in open : \A x \in open : r.position <= x.position}

Ret(op, p, ok, id) == [op |-> op, project |-> p, ok |-> ok, id |-> id]

\* TodoStore::add; the position argument and the TodoItem it returns are kept
\* with the outcome
TodoAdd(p, posOpt) ==
    /\ nextId < MaxIds
    /\ LET id == nextId + 1
           row == [id |-> id, position |-> 0, completed |-> FALSE,
                   updated_at |-> "created_at"]
           position == IF posOpt = None THEN next_position(todos[db_path(p)]) ELSE Get(posOpt)
       IN  /\ todos' = [todos EXCEPT ![db_path(p)] = AddRows(@, row, posOpt)]
           /\ nextId' = id
           /\ last' = [op |-> "add", project |-> p, ok |-> TRUE, id |-> id,
                       posOpt |-> posOpt, item |-> [row EXCEPT !.position = position]]
    /\ UNCHANGED <<notes, builds>>

TodoRemove(p, id) ==
    /\ IF find_position(todos[db_path(p)], id) = None
          THEN /\ last' = Ret("remove", p, FALSE, id)
               /\ UNCHANGED todos
          ELSE /\ todos' = [todos EXCEPT ![db_path(p)] = RemoveRows(@, id)]
               /\ last' = Ret("remove", p, TRUE, id)
    /\ UNCHANGED <<notes, builds, nextId>>

\* TodoStore::move_to; the target it was called with is kept with the outcome
TodoMoveTo(p, id, new_position) ==
    /\ IF find_position(todos[db_path(p)], id) = None
          THEN /\ last' = Ret("move_to", p, FALSE, id)
               /\ UNCHANGED todos
          ELSE /\ todos' = [todos EXCEPT ![db_path(p)] = MoveRows(@, id, new_position)]
               /\ last' = [op |-> "move_to", project |-> p, ok |-> TRUE, id |-> id,
                           new_position |-> new_position]
    /\ UNCHANGED <<notes, builds, nextId>>

\* TodoStore::set_completed: no row updated is the not-found error
TodoSetCompleted(p, id, completed) ==
    /\ IF find_position(todos[db_path(p)], id) = None
          THEN /\ last' = Ret("set_completed", p, FALSE, id)
               /\ UNCHANGED todos
          ELSE /\ todos' = [todos EXCEPT ![db_path(p)] = SetCompletedRows(@, id, completed)]
               /\ last' = [op |-> "set_completed", project |-> p, ok |-> TRUE, id |-> id,
                           completed |-> completed]
    /\ UNCHANGED <<notes, builds, nextId>>

\* TodoStore::get_next: the id of the row it returns, 0 for Ok(None)
TodoGetNext(p) ==
    /\ last' = Ret("get_next", p, TRUE,
                   IF get_next(todos[db_path(p)]) = None THEN 0
                   ELSE Get(get_next(todos[db_path(p)])).id)
    /\ UNCHANGED <<todos, notes, builds, nextId>>

NoteAdd(p, posOpt) ==
    /\ nextId < MaxIds
    /\ LET id == nextId + 1
           row == [id |-> id, position |-> 0, updated_at |-> "created_at"]
       IN  /\ notes' = [notes EXCEPT ![db_path(p)] = AddRows(@, row, posOpt)]
           /\ nextId' = id
           /\ last' = Ret("note_add", p, TRUE, id)
    /\ UNCHANGED <<todos, builds>>

NoteRemove(p, id) ==
    /\ IF find_position(notes[db_path(p)], id) = None
          THEN /\ last' = Ret("note_remove", p, FALSE, id)
               /\ UNCHANGED notes
          ELSE /\ notes' = [notes EXCEPT ![db_path(p)] = RemoveRows(@, id)]
               /\ last' = Ret("note_remove", p, TRUE, id)
    /\ UNCHANGED <<todos, builds, nextId>>

NoteMoveTo(p, id, new_position) ==
    /\ IF find_position(notes[db_path(p)], id) = None
          THEN /\ last' = Ret("note_move_to", p, FALSE, id)
               /\ UNCHANGED notes
          ELSE /\ notes' = [notes EXCEPT ![db_path(p)] = MoveRows(@, id, new_position)]
               /\ last' = Ret("note_move_to", p, TRUE, id)
    /\ UNCHANGED <<todos, builds, nextId>>

----------------------------------------------------------------------------
(* Default-Flagged Entity Store: build_commands.rs *)

\* default_is_missing that looks for rows at all, not for flagged rows
default_is_missing_NoRows(rows) == rows = {}

\* SELECT COUNT(*) FROM build_commands WHERE is_default = 1; count == 0
default_is_missing(rows) == Cardinality({r \in rows : r.is_default}) = 0

\* UPDATE build_commands SET is_default = 0
clear_default(rows) == {[r EXCEPT !.is_default = FALSE] : r \in rows}

\* the UPDATE of set_default without its WHERE clause
MarkDefault_AllRows(rows, id) == {[r EXCEPT !.is_default = TRUE] : r \in rows}

\* UPDATE build_commands SET is_default = 1 WHERE id = ?1
MarkDefault(rows, id) ==
    {IF r.id = id THEN [r EXCEPT !.is_default = TRUE] ELSE r : r \in rows}

\* set_default that looks for the row before it clears any flag
SetDefaultRows_LookFirst(rows, id) ==
    IF \E r \in rows : r.id = id THEN MarkDefault(clear_default(rows), id) ELSE rows

\* set_default that forgets to clear the other rows first
SetDefaultRows_NoClear(rows, id) == MarkDefault(rows, id)

\* the statements of set_default, in order
SetDefaultRows(rows, id) == MarkDefault(clear_default(rows), id)

\* SELECT .. WHERE is_default = 1 ORDER BY created_at DESC LIMIT 1
\* (ids are handed out in creation order)
get_default(rows) ==
    LET flagged == {r \in rows : r.is_default}
    IN  IF flagged = {} THEN None
        ELSE Some(CHOOSE r \in flagged : \A x \in flagged : x.id <= r.id)

BuildAdd(p) ==
    /\ nextId < MaxIds
    /\ LET id == nextId + 1
           should_default == default_is_missing(builds[db_path(p)])
           cleared == IF should_default THEN clear_default(builds[db_path(p)])
                      ELSE builds[db_path(p)]
       IN  /\ builds' = [builds EXCEPT ![db_path(p)] =
                  cleared \cup {[id |-> id, is_default |-> should_default]}]
           /\ nextId' = id
           /\ last' = Ret("build_add", p, TRUE, id)
    /\ UNCHANGED <<todos, notes>>

BuildRemove(p, id) ==
    /\ builds' = [builds EXCEPT ![db_path(p)] = {r \in @ : r.id # id}]
    /\ last' = Ret("build_remove", p, \E r \in builds[db_path(p)] : r.id = id, id)
    /\ UNCHANGED <<todos, notes, nextId>>

BuildSetDefault(p, id) ==
    /\ builds' = [builds EXCEPT ![db_path(p)] = SetDefaultRows(@, id)]
    /\ last' = Ret("set_default", p, \E r \in builds[db_path(p)] : r.id = id, id)
    /\ UNCHANGED <<todos, notes, nextId>>

----------------------------------------------------------------------------
(* JSON-RPC requests and responses (mcp.rs / http_server.rs)               *)

\* a registry in which nothing was registered
StandardRegistry_Empty == {}

\* ToolRegistry filled by create_standard_registry
StandardRegistry == {"read_file", "write_file", "list_directory", "search_files"}

TodoTools == {"todo_add", "todo_remove", "todo_check", "todo_list",
              "todo_get_next", "todo_insert", "todo_move"}

BuildTools == {"build_add_command", "build_remove_command", "build_list_commands",
               "build_run_command", "build_set_default", "build_get_default"}

is_todo_tool(tool_name) == tool_name \in TodoTools
is_build_tool(tool_name) == tool_name \in BuildTools

Methods == {"initialize", "notifications/initialized", "tools/list", "tools/call",
            "resources/list", "resources/read", "unknown/method"}

\* str::strip_prefix("file://")
strip_prefix(uri) == IF uri.prefix = "file://" THEN Some(uri.rest) ELSE None

\* the fields of a tools/call `arguments` object the handlers look at
NoArgs == [title |-> FALSE, position |-> None, id |-> None, completed |-> None,
           name |-> FALSE, command |-> FALSE]

\* the fields of a `params` object the handlers look at
NoParams == [name |-> None, arguments |-> NoArgs, project |-> None, uri |-> None]

Resp(kind, code, what, id) ==
    [jsonrpc |-> "2.0", kind |-> kind, code |-> code, what |-> what, id |-> id,
     isError |-> FALSE, text |-> "", tools |-> {}]

----------------------------------------------------------------------------
(* Standalone dispatcher: McpServer (mcp.rs) *)

\* Result<Value, McpError> of a handler, with the state the handler leaves
McpOk(what, st) ==
    [ok |-> TRUE, what |-> what, state |-> st, isError |-> FALSE, text |-> "", tools |-> {}]
McpErr(what, st) ==
    [ok |-> FALSE, what |-> what, state |-> st, isError |-> FALSE, text |-> "", tools |-> {}]

\* handle_initialize that takes a refused initialize as the end of the session
handle_initialize_Restart(st) ==
    IF st = "Initialized" THEN McpErr("AlreadyInitialized", "Uninitialized")
    ELSE McpOk("initialize", "Initialized")

\* handle_initialize without the AlreadyInitialized check
handle_initialize_NoCheck(st) == McpOk("initialize", "Initialized")

handle_initialize(st) ==
    IF st = "Initialized" THEN McpErr("AlreadyInitialized", st)
    ELSE McpOk("initialize", "Initialized")

\* handle_tools_list without the NotInitialized check
handle_tools_list_NoCheck(st) == [McpOk("tools", st) EXCEPT !.tools = StandardRegistry]

handle_tools_list(st) ==
    IF st # "Initialized" THEN McpErr("NotInitialized", st)
    ELSE [McpOk("tools", st) EXCEPT !.tools = StandardRegistry]

handle_tools_call(st, params, out) ==
    IF st # "Initialized" THEN McpErr("NotInitialized", st)
    ELSE IF params = None THEN McpErr("MissingParameter", st)
    ELSE IF Get(params).name = None THEN McpErr("MissingParameter", st)
    ELSE IF Get(Get(params).name) \notin StandardRegistry THEN McpErr("ToolNotFound", st)
    ELSE IF out = "fail" THEN McpErr("ToolExecutionFailed", st)
    ELSE [McpOk("content", st) EXCEPT !.text = "output"]

handle_resources_list(st) ==
    IF st # "Initialized" THEN McpErr("NotInitialized", st)
    ELSE McpOk("resources", st)

handle_resources_read(st, params, out) ==
    IF st # "Initialized" THEN McpErr("NotInitialized", st)
    ELSE IF params = None THEN McpErr("MissingParameter", st)
    ELSE IF Get(params).uri = None THEN McpErr("MissingParameter", st)
    ELSE IF strip_prefix(Get(Get(params).uri)) = None THEN McpErr("InvalidParameter", st)
    ELSE IF "read_file" \notin StandardRegistry THEN McpErr("InternalError", st)
    ELSE IF out = "fail" THEN McpErr("ResourceNotFound", st)
    ELSE [McpOk("contents", st) EXCEPT !.text = "output"]

\* McpServer::handle_request: the response and the state it leaves
handle_request(st, req, out) ==
    IF req.jsonrpc # "2.0"
    THEN [state |-> st, resp |-> Resp("error", 0 - 32600, "InvalidRequest", req.id)]
    ELSE IF req.method = "notifications/initialized"
    THEN [state |-> st, resp |-> Resp("result", 0, "empty", req.id)]
    ELSE
      LET result ==
            CASE req.method = "initialize" -> handle_initialize(st)
              [] req.method = "tools/list" -> handle_tools_list(st)
              [] req.method = "tools/call" -> handle_tools_call(st, req.params, out)
              [] req.method = "resources/list" -> handle_resources_list(st)
              [] req.method = "resources/read" -> handle_resources_read(st, req.params, out)
              [] OTHER -> McpErr("UnknownMethod", st)
      IN  [state |-> result.state,
           resp  |-> IF result.ok
                     THEN [Resp("result", 0, result.what, req.id) EXCEPT
                              !.isError = result.isError, !.text = result.text,
                              !.tools = result.tools]
                     ELSE Resp("error", 0 - 32603, result.what, req.id)]

\* what is kept of a handled request: its version, method, the name, uri and
\* project id of its params, and the state the server was in when it arrived
ReqInfo(req, st) ==
    [jsonrpc |-> req.jsonrpc, method |-> req.method, id |-> req.id,
     params |-> IF req.params = None THEN None
                ELSE Some([name |-> Get(req.params).name, uri |-> Get(req.params).uri,
                           project |-> Get(req.params).project]),
     before |-> st]

\* the standalone server answers one request
StdioHandle(req, out) ==
    /\ state' = handle_request(state, req, out).state
    /\ mreq' = ReqInfo(req, state)
    /\ mresp' = handle_request(state, req, out).resp

MaxLines == 2        \* input lines run_stdio reads, per behaviour

MaxBatch == 2        \* requests in one JSON array line

\* an input line as the loop sees it: what the parser makes of it, the id of
\* the request when it is one, and the requests of the array when it is one
Line(kind, id) == [kind |-> kind, id |-> id, reqs |-> <<>>]

\* lines.next_line() has returned None and the loop has been left
StdinEnded == stdin # <<>> /\ stdin[Len(stdin)].kind = "eof"

\* run_stdio that answers an empty line like any other unparseable line
RunBlankLine_NoSkip ==
    /\ stdin_read < MaxLines /\ ~StdinEnded
    /\ stdin_read' = stdin_read + 1
    /\ stdin' = Append(stdin, Line("empty", None))
    /\ stdout' = Append(stdout, Resp("error", 0 - 32700, "ParseError", None))
    /\ UNCHANGED <<state, mreq, mresp>>

\* run_stdio, one iteration on an empty line: `continue`
RunBlankLine ==
    /\ stdin_read < MaxLines /\ ~StdinEnded
    /\ stdin_read' = stdin_read + 1
    /\ stdin' = Append(stdin, Line("empty", None))
    /\ UNCHANGED <<state, mreq, mresp, stdout>>

\* run_stdio, one iteration on a line serde_json cannot parse as a JsonRpcRequest
RunMalformedLine ==
    /\ stdin_read < MaxLines /\ ~StdinEnded
    /\ stdin_read' = stdin_read + 1
    /\ stdin' = Append(stdin, Line("malformed", None))
    /\ stdout' = Append(stdout, Resp("error", 0 - 32700, "ParseError", None))
    /\ UNCHANGED <<state, mreq, mresp>>

\* run_stdio, one iteration on a line that parses: handle_request, write, flush
RunRequestLine(req, out) ==
    /\ stdin_read < MaxLines /\ ~StdinEnded
    /\ stdin_read' = stdin_read + 1
    /\ stdin' = Append(stdin, Line("request", req.id))
    /\ StdioHandle(req, out)
    /\ stdout' = Append(stdout, handle_request(state, req, out).resp)

\* run_stdio, one iteration on a line that is a JSON array of requests: the
\* line is parsed as one JsonRpcRequest, which an array of objects is not
RunBatchLine(reqs) ==
    /\ stdin_read < MaxLines /\ ~StdinEnded
    /\ stdin_read' = stdin_read + 1
    /\ stdin' = Append(stdin, [kind |-> "batch", id |-> None, reqs |-> reqs])
    /\ stdout' = Append(stdout, Resp("error", 0 - 32700, "ParseError", None))
    /\ UNCHANGED <<state, mreq, mresp>>

\* run_stdio, next_line() returns None: the loop ends and run_stdio returns
RunEndOfInput ==
    /\ ~StdinEnded
    /\ stdin' = Append(stdin, Line("eof", None))
    /\ UNCHANGED <<state, mreq, mresp, stdin_read, stdout>>


----------------------------------------------------------------------------
(* Stdio-to-HTTP proxy: run_stdio_proxy (mcp_proxy.rs) *)

MaxProxyLines == 3   \* input lines run_stdio_proxy reads, per behaviour

\* is_notification that only looks for a missing id
is_notification_AbsentOnly(id) == id = "absent"

\* is_notification: no id, or id null
is_notification(id) == id = "absent" \/ id = "null"

\* one iteration on a line that is empty once trimmed: `continue`
ProxyBlankLine ==
    /\ Len(pin) < MaxProxyLines
    /\ pin' = Append(pin, Line("blank", "absent"))
    /\ UNCHANGED <<posts, pout>>

\* one iteration on a line that is not JSON: the parse error is written
ProxyInvalidLine ==
    /\ Len(pin) < MaxProxyLines
    /\ pin' = Append(pin, Line("invalid", "absent"))
    /\ pout' = Append(pout, "error -32700 id null")
    /\ UNCHANGED posts

\* one iteration on a line that is JSON: forward it, and write the outcome
\* unless the line is a notification
ProxyRequestLine(id, outcome) ==
    /\ Len(pin) < MaxProxyLines
    /\ pin' = Append(pin, Line("request", id))
    /\ posts' = Append(posts, [line |-> Len(pin) + 1, outcome |-> outcome])
    /\ pout' = IF is_notification(id) THEN pout ELSE Append(pout, outcome.text)

----------------------------------------------------------------------------
(* Project Store Cache and Event Bus (app_state.rs) *)

HISTORY_CAP == 100

MaxRecorded == 150   \* record_event calls per behaviour
NumRecorders == 2    \* tasks that call record_event concurrently
Recorders == 1..NumRecorders

\* Vec::truncate(len)
truncate(seq, len) == IF Len(seq) > len THEN SubSeq(seq, 1, len) ELSE seq

\* record_event that pushes at the back instead of inserting at the front
RecordInsert_PushBack(history, event) == truncate(Append(history, event), HISTORY_CAP)

\* history.insert(0, event); history.truncate(100)
RecordInsert(history, event) == truncate(<<event>> \o history, HISTORY_CAP)

\* Arc::new(ProjectStore::new(..)): an instance no entry of the cache holds
NewStore(c) == IF DOMAIN c = {} THEN 1 ELSE SetMax({c[p] : p \in DOMAIN c}) + 1

\* Result<Arc<ProjectStore>, ContextError> with the cache the call leaves
StoreOk(c, store) == [ok |-> TRUE, cache |-> c, store |-> store, error |-> ""]
StoreErr(c, error) == [ok |-> FALSE, cache |-> c, store |-> 0, error |-> error]

\* an insert that keeps the entry the cache already holds
insert_KeepsFirst(c, project_id, store) ==
    IF project_id \in DOMAIN c THEN c ELSE (project_id :> store) @@ c

\* ProjectStoreCache::insert: HashMap::insert under the write lock
insert(c, project_id, store) == (project_id :> store) @@ c

\* ensure_default_project that creates the project without looking for it:
\* the INSERT of a second row with id "default" fails on the PRIMARY KEY
ensure_default_project_NoCheck(reg, c) ==
    IF "default" \in reg THEN [ok |-> FALSE, registry |-> reg, cache |-> c]
    ELSE [ok |-> TRUE, registry |-> reg \cup {"default"},
          cache |-> insert(c, "default", NewStore(c))]

\* ensure_default_project: nothing when the registry lists "default", else
\* create_project_with_id, ProjectStore::new and cache.insert
ensure_default_project(reg, c) ==
    IF "default" \in reg THEN [ok |-> TRUE, registry |-> reg, cache |-> c]
    ELSE [ok |-> TRUE, registry |-> reg \cup {"default"},
          cache |-> insert(c, "default", NewStore(c))]

\* get_project_store that does not look in the cache first
get_project_store_NoCacheCheck(c, reg, project_id) ==
    IF project_id \in reg
    THEN StoreOk(insert(c, project_id, NewStore(c)), NewStore(c))
    ELSE StoreErr(c, "NotInContext")

\* get_project_store that builds a store for an id the registry does not know
get_project_store_NoRegistryCheck(c, reg, project_id) ==
    IF project_id \in DOMAIN c THEN StoreOk(c, c[project_id])
    ELSE StoreOk(insert(c, project_id, NewStore(c)), NewStore(c))

\* AppState::get_project_store: cache hit, else registry lookup and insert
get_project_store(c, reg, project_id) ==
    IF project_id \in DOMAIN c THEN StoreOk(c, c[project_id])
    ELSE IF project_id \in reg
    THEN StoreOk(insert(c, project_id, NewStore(c)), NewStore(c))
    ELSE StoreErr(c, "NotInContext")

\* ProjectRegistry::create_project: a new row under a fresh id
CreateProject(p) ==
    /\ p \notin registry
    /\ registry' = registry \cup {p}

\* AppState::record_event, up to the release of the history write lock:
\* insert at the front and truncate, as one step under the lock
RecordEventInsert(r) ==
    /\ rec[r] = "idle"
    /\ evSeq < MaxRecorded
    /\ event_history' = RecordInsert(event_history,
           [id |-> evSeq + 1, tool_name |-> "read_file", project_id |-> "default",
            success |-> TRUE, content |-> "output"])
    /\ evSeq' = evSeq + 1
    /\ rec' = [rec EXCEPT ![r] = "send"]

\* AppState::record_event, the rest: `let _ = self.event_sender.send(event)`
RecordEventSend(r) ==
    /\ rec[r] = "send"
    /\ rec' = [rec EXCEPT ![r] = "idle"]
    /\ UNCHANGED <<event_history, evSeq>>

----------------------------------------------------------------------------
(* Live broadcast: AppState.event_sender and its receivers (app_state.rs) *)

\* broadcast::channel(100)
CHANNEL_CAPACITY == 100

\* usize::next_power_of_two: the channel rounds its capacity up to one
next_power_of_two(n) == CHOOSE p \in {2^k : k \in 0..10} :
                           p >= n /\ \A q \in {2^k : k \in 0..10} : q >= n => p <= q

\* the number of values the channel retains
ChannelSlots == next_power_of_two(CHANNEL_CAPACITY)

Subscribers == {"sse1", "sse2"}

MaxSent == 130        \* events recorded while the channel fills up
MaxLive == 3          \* events recorded while receivers keep reading
MaxSubscribeAt == 1   \* events recorded before the last subscribe()

\* a broadcast::Receiver: the number of sent values it is past, the events
\* it has yielded, and the events whose recording was over when it was made

\* the events whose record_event call has returned
Completed == (1..evSeq) \ {pending[r] : r \in Recorders}

\* Sender::send that waits for room while a receiver is a full buffer behind
send_ready_WaitsForRoom(log, rcvs) ==
    \A s \in DOMAIN rcvs : rcvs[s].status = "open" => Len(log) - rcvs[s].next < ChannelSlots

\* Sender::send never waits: the oldest retained value is overwritten
send_ready(log, rcvs) == TRUE

\* Sender::send: Err, and nothing stored, when there is no receiver
send(log, rcvs, id) ==
    IF \A s \in DOMAIN rcvs : rcvs[s].status # "open" THEN log ELSE Append(log, id)

\* Sender::subscribe that starts the receiver at the oldest retained value
subscribe_FromOldest(log) ==
    [status |-> "open",
     next |-> IF Len(log) > ChannelSlots THEN Len(log) - ChannelSlots ELSE 0,
     got |-> <<>>, missed |-> Completed]

\* Sender::subscribe: the new receiver starts at the tail
subscribe(log) ==
    [status |-> "open", next |-> Len(log), got |-> <<>>, missed |-> Completed]

\* Receiver::recv on a channel that holds something the receiver is not past:
\* Lagged when the value it is at has been overwritten, else that value
recv(rcv, log) ==
    IF Len(log) - rcv.next > ChannelSlots
    THEN [ok |-> FALSE, value |-> 0, next |-> Len(log) - ChannelSlots]
    ELSE [ok |-> TRUE, value |-> log[rcv.next + 1], next |-> rcv.next + 1]

\* record_event up to the release of the lock, by recorder r
RecordBegin(r) ==
    /\ RecordEventInsert(r)
    /\ pending' = [pending EXCEPT ![r] = evSeq + 1]
    /\ UNCHANGED <<event_sender, receivers>>

\* record_event from the send to its return, by recorder r
RecordFinish(r) ==
    /\ RecordEventSend(r)
    /\ send_ready(event_sender, receivers)
    /\ event_sender' = send(event_sender, receivers, pending[r])
    /\ pending' = [pending EXCEPT ![r] = 0]
    /\ UNCHANGED receivers

\* AppState::subscribe, as stream_events calls it on a new connection
Subscribe(s) ==
    /\ receivers[s].status = "none"
    /\ receivers' = [receivers EXCEPT ![s] = subscribe(event_sender)]
    /\ UNCHANGED <<event_sender, pending, busVars>>

\* stream_events, one turn of `while let Ok(event) = rx.recv().await`: the
\* event is yielded, or the loop and with it the stream ends
StreamRecv(s) ==
    /\ receivers[s].status = "open"
    /\ receivers[s].next < Len(event_sender)
    /\ LET r == recv(receivers[s], event_sender)
       IN  receivers' = [receivers EXCEPT
               ![s] = IF r.ok
                      THEN [@ EXCEPT !.next = r.next, !.got = Append(@, r.value)]
                      ELSE [@ EXCEPT !.next = r.next, !.status = "ended"]]
    /\ UNCHANGED <<event_sender, pending, busVars>>

----------------------------------------------------------------------------
(* Embedded dispatcher: handle_mcp_request (http_server.rs) *)

MaxCalls == 1        \* tools/call requests that record an event, per behaviour
MaxCallIds == 1      \* rows inserted through tools/call, per behaviour

ProjectIdArgs == {None, Some("alpha"), Some("ghost")}

\* params.projectId / params.project_id, "default" when neither is a string
parse_project_id(params) == IF params.project = None THEN "default" ELSE Get(params.project)

\* Result<String, String> of a store-backed tool, with the table it leaves
CallOk(content, rows, minted) ==
    [ok |-> TRUE, content |-> content, rows |-> rows, minted |-> minted]
CallErr(content, rows) ==
    [ok |-> FALSE, content |-> content, rows |-> rows, minted |-> FALSE]

\* the match arms of execute_todo_tool_call, on the project's todos table
TodoCall(tool_name, args, rows, id) ==
    CASE tool_name = "todo_add" ->
           IF ~args.title THEN CallErr("Missing 'title'", rows)
           ELSE CallOk("todo", AddRows(rows, [id |-> id, position |-> 0, completed |-> FALSE,
                                              updated_at |-> "created_at"],
                                       args.position), TRUE)
      [] tool_name = "todo_insert" ->
           IF ~args.title THEN CallErr("Missing 'title'", rows)
           ELSE IF args.position = None THEN CallErr("Missing 'position'", rows)
           ELSE CallOk("todo", AddRows(rows, [id |-> id, position |-> 0, completed |-> FALSE,
                                              updated_at |-> "created_at"],
                                       args.position), TRUE)
      [] tool_name = "todo_remove" ->
           IF args.id = None THEN CallErr("Missing 'id'", rows)
           ELSE IF find_position(rows, Get(args.id)) = None
                THEN CallErr("File not in context", rows)
           ELSE CallOk("removed", RemoveRows(rows, Get(args.id)), FALSE)
      [] tool_name = "todo_check" ->
           IF args.id = None THEN CallErr("Missing 'id'", rows)
           ELSE IF find_position(rows, Get(args.id)) = None
                THEN CallErr("File not in context", rows)
           ELSE LET completed == IF args.completed = None THEN TRUE ELSE Get(args.completed)
                IN  CallOk("updated", SetCompletedRows(rows, Get(args.id), completed), FALSE)
      [] tool_name = "todo_list" -> CallOk("todos", rows, FALSE)
      [] tool_name = "todo_get_next" -> CallOk("next", rows, FALSE)
      [] tool_name = "todo_move" ->
           IF args.id = None THEN CallErr("Missing 'id'", rows)
           ELSE IF args.position = None THEN CallErr("Missing 'position'", rows)
           ELSE IF find_position(rows, Get(args.id)) = None
                THEN CallErr("File not in context", rows)
           ELSE CallOk("moved", MoveRows(rows, Get(args.id), Get(args.position)), FALSE)
      [] OTHER -> CallErr("Unknown todo tool", rows)

\* the argument checks a build tool makes before it resolves the project store
BuildArgError(tool_name, args) ==
    CASE tool_name = "build_add_command" ->
           IF ~args.name THEN "Missing name"
           ELSE IF ~args.command THEN "Missing command" ELSE ""
      [] tool_name \in {"build_remove_command", "build_run_command", "build_set_default"} ->
           IF args.id = None THEN "Missing id" ELSE ""
      [] OTHER -> ""

\* the store call of each match arm of execute_build_tool_call
BuildCall(tool_name, args, rows, id, out) ==
    CASE tool_name = "build_add_command" ->
           LET should_default == default_is_missing(rows)
               cleared == IF should_default THEN clear_default(rows) ELSE rows
           IN  CallOk("command", cleared \cup {[id |-> id, is_default |-> should_default]}, TRUE)
      [] tool_name = "build_remove_command" ->
           IF \E r \in rows : r.id = Get(args.id)
           THEN CallOk("ok", {r \in rows : r.id # Get(args.id)}, FALSE)
           ELSE CallErr("File not in context", rows)
      [] tool_name = "build_list_commands" -> CallOk("commands", rows, FALSE)
      [] tool_name = "build_run_command" ->
           IF ~\E r \in rows : r.id = Get(args.id) THEN CallErr("Build command not found", rows)
           ELSE IF out = "fail" THEN CallErr("Command failed", rows)
           ELSE CallOk("output", rows, FALSE)
      [] tool_name = "build_set_default" ->
           IF \E r \in rows : r.id = Get(args.id)
           THEN CallOk("ok", SetDefaultRows(rows, Get(args.id)), FALSE)
           ELSE CallErr("File not in context", SetDefaultRows(rows, Get(args.id)))
      [] tool_name = "build_get_default" -> CallOk("default", rows, FALSE)
      [] OTHER -> CallErr("Unknown build tool", rows)

\* what execute_tool_call leaves: whether it got as far as recording the
\* event, its Result, and the stores, id counter and cache afterwards
Exec(recorded, ok, content, t, b, n, c) ==
    [recorded |-> recorded, ok |-> ok, content |-> content,
     todos |-> t, builds |-> b, nextId |-> n, cache |-> c]

execute_todo_tool_call(tool_name, args, project_id) ==
    LET store == get_project_store(cache, registry, project_id)
    IN  IF ~store.ok
        THEN Exec(TRUE, FALSE, "File not in context", todos, builds, nextId, cache)
        ELSE LET r == TodoCall(tool_name, args, todos[db_path(project_id)], nextId + 1)
             IN  Exec(TRUE, r.ok, r.content, [todos EXCEPT ![db_path(project_id)] = r.rows], builds,
                      IF r.minted THEN nextId + 1 ELSE nextId, store.cache)

execute_build_tool_call(tool_name, args, project_id, out) ==
    LET store == get_project_store(cache, registry, project_id)
    IN  IF BuildArgError(tool_name, args) # ""
        THEN Exec(TRUE, FALSE, BuildArgError(tool_name, args), todos, builds, nextId, cache)
        ELSE IF tool_name = "build_run_command" /\ project_id \notin registry
        THEN Exec(TRUE, FALSE, "Project not found", todos, builds, nextId, cache)
        ELSE IF ~store.ok
        THEN Exec(TRUE, FALSE, "File not in context", todos, builds, nextId, cache)
        ELSE LET r == BuildCall(tool_name, args, builds[db_path(project_id)], nextId + 1, out)
             IN  Exec(TRUE, r.ok, r.content, todos, [builds EXCEPT ![db_path(project_id)] = r.rows],
                      IF r.minted THEN nextId + 1 ELSE nextId, store.cache)

\* the registry branch of execute_tool_call: an unknown name returns at once
execute_registry_tool_call(tool_name, out) ==
    IF tool_name \notin StandardRegistry
    THEN Exec(FALSE, FALSE, "Tool not found", todos, builds, nextId, cache)
    ELSE IF out = "fail" THEN Exec(TRUE, FALSE, "tool error", todos, builds, nextId, cache)
    ELSE Exec(TRUE, TRUE, "output", todos, builds, nextId, cache)

\* execute_tool_call that looks the name up in the registry before anything else
execute_tool_call_RegistryFirst(tool_name, args, project_id, out) ==
    IF tool_name \notin StandardRegistry THEN execute_registry_tool_call(tool_name, out)
    ELSE IF is_todo_tool(tool_name) THEN execute_todo_tool_call(tool_name, args, project_id)
    ELSE IF is_build_tool(tool_name)
         THEN execute_build_tool_call(tool_name, args, project_id, out)
    ELSE execute_registry_tool_call(tool_name, out)

execute_tool_call(tool_name, args, project_id, out) ==
    IF is_todo_tool(tool_name) THEN execute_todo_tool_call(tool_name, args, project_id)
    ELSE IF is_build_tool(tool_name)
         THEN execute_build_tool_call(tool_name, args, project_id, out)
    ELSE execute_registry_tool_call(tool_name, out)

ToolCallEvent(seq, tool_name, project_id, success, content) ==
    [id |-> seq, tool_name |-> tool_name, project_id |-> project_id,
     success |-> success, content |-> content]

mcp_content_response(id, content, is_error) ==
    [Resp("result", 0, "content", id) EXCEPT !.text = content, !.isError = is_error]

\* json_rpc_error_response that leaves the id out
json_rpc_error_response_NullId(code, message, id) == Resp("error", code, message, None)

json_rpc_error_response(code, message, id) == Resp("error", code, message, id)

httpSide == <<todos, builds, nextId, cache, event_history, evSeq>>

handle_mcp_initialize(id) ==
    /\ hresp' = Resp("result", 0, "initialize", id)
    /\ UNCHANGED httpSide

handle_mcp_tools_list(id) ==
    /\ hresp' = [Resp("result", 0, "tools", id) EXCEPT
                    !.tools = StandardRegistry \cup TodoTools \cup BuildTools]
    /\ UNCHANGED httpSide

handle_mcp_tools_call(id, params, out) ==
    IF params = None
    THEN /\ hresp' = json_rpc_error_response(0 - 32602, "Missing params", id)
         /\ UNCHANGED httpSide
    ELSE IF Get(params).name = None
    THEN /\ hresp' = json_rpc_error_response(0 - 32602, "Missing name", id)
         /\ UNCHANGED httpSide
    ELSE LET tool_name == Get(Get(params).name)
             project_id == parse_project_id(Get(params))
             e == execute_tool_call(tool_name, Get(params).arguments, project_id, out)
         IN  /\ e.nextId <= MaxCallIds
             /\ e.recorded => evSeq < MaxCalls
             /\ todos' = e.todos
             /\ builds' = e.builds
             /\ nextId' = e.nextId
             /\ cache' = e.cache
             /\ IF e.recorded
                THEN /\ event_history' = RecordInsert(event_history,
                            ToolCallEvent(evSeq + 1, tool_name, project_id, e.ok, e.content))
                     /\ evSeq' = evSeq + 1
                ELSE UNCHANGED <<event_history, evSeq>>
             /\ hresp' = mcp_content_response(id, e.content, ~e.ok)

handle_mcp_resources_list(id, params) ==
    LET project_id == IF params = None THEN "default" ELSE parse_project_id(Get(params))
        store == get_project_store(cache, registry, project_id)
    IN  /\ cache' = store.cache
        /\ hresp' = IF store.ok THEN Resp("result", 0, "resources", id)
                    ELSE json_rpc_error_response(0 - 32603, "File not in context", id)
        /\ UNCHANGED <<todos, builds, nextId, event_history, evSeq>>

handle_mcp_resources_read(id, params, out) ==
    /\ hresp' =
         IF params = None THEN json_rpc_error_response(0 - 32602, "Missing params", id)
         ELSE IF Get(params).uri = None
              THEN json_rpc_error_response(0 - 32602, "Missing uri", id)
         ELSE IF strip_prefix(Get(Get(params).uri)) = None
              THEN json_rpc_error_response(0 - 32602, "Invalid uri", id)
         ELSE IF "read_file" \notin StandardRegistry
              THEN json_rpc_error_response(0 - 32603, "read_file tool not found", id)
         ELSE IF out = "fail" THEN json_rpc_error_response(0 - 32603, "tool error", id)
         ELSE [Resp("result", 0, "contents", id) EXCEPT !.text = "output"]
    /\ UNCHANGED httpSide

\* parse_json_rpc_request that accepts any version string
parse_json_rpc_request_AnyVersion(req) == None

\* parse_json_rpc_request on a well-formed request object: the version check
parse_json_rpc_request(req) ==
    IF req.jsonrpc # "2.0"
    THEN Some(json_rpc_error_response(0 - 32600, "Invalid JSON-RPC version", req.id))
    ELSE None

\* the embedded dispatcher answers one request
handle_mcp_request(req, out) ==
    IF parse_json_rpc_request(req) # None
    THEN /\ hresp' = Get(parse_json_rpc_request(req))
         /\ UNCHANGED httpSide
    ELSE CASE req.method = "initialize" -> handle_mcp_initialize(req.id)
           [] req.method = "tools/list" -> handle_mcp_tools_list(req.id)
           [] req.method = "tools/call" -> handle_mcp_tools_call(req.id, req.params, out)
           [] req.method = "resources/list" -> handle_mcp_resources_list(req.id, req.params)
           [] req.method = "resources/read" ->
                handle_mcp_resources_read(req.id, req.params, out)
           [] OTHER -> /\ hresp' = json_rpc_error_response(0 - 32601, "Method not found", req.id)
                       /\ UNCHANGED httpSide

\* handle_mcp_request on a JSON value serde_json cannot turn into a
\* JsonRpcRequest: parse_json_rpc_request returns the -32700 response
PostUnparsed ==
    /\ hresp' = json_rpc_error_response(0 - 32700, "Invalid JSON-RPC request", None)
    /\ UNCHANGED httpSide

----------------------------------------------------------------------------
(* The requests a client can send *)

\* ids a tools/call can name: those minted through calls, and one never minted
ArgsFor(tool_name) ==
    LET IdOpts == {None} \cup {Some(k) : k \in 1..(MaxCallIds + 1)}
        CallPosOpts == {None, Some(0), Some(MaxPos)}
    IN
    CASE tool_name \in {"todo_add", "todo_insert"} ->
           {[NoArgs EXCEPT !.title = t, !.position = o] : t \in BOOLEAN, o \in CallPosOpts}
      [] tool_name = "todo_move" ->
           {[NoArgs EXCEPT !.id = i, !.position = o] : i \in IdOpts, o \in CallPosOpts}
      [] tool_name = "todo_check" ->
           {[NoArgs EXCEPT !.id = i, !.completed = c] :
               i \in IdOpts, c \in {None, Some(FALSE)}}
      [] tool_name \in {"todo_remove", "build_remove_command", "build_run_command",
                        "build_set_default"} ->
           {[NoArgs EXCEPT !.id = i] : i \in IdOpts}
      [] tool_name = "build_add_command" ->
           {[NoArgs EXCEPT !.name = n, !.command = c] : n \in BOOLEAN, c \in BOOLEAN}
      [] OTHER -> {NoArgs}

CallParams ==
    {None, Some(NoParams)} \cup
    UNION {{Some([NoParams EXCEPT !.name = Some(n), !.arguments = a, !.project = p]) :
               a \in ArgsFor(n), p \in ProjectIdArgs} :
              n \in {"read_file"} \cup TodoTools \cup BuildTools \cup {"unknown_tool"}}

ReadParams ==
    \* a uri is its scheme prefix followed by the rest
    {None, Some(NoParams)} \cup
    {Some([NoParams EXCEPT !.uri = Some(u)]) :
        u \in {[prefix |-> "file://", rest |-> "/a.txt"],
               [prefix |-> "http://", rest |-> "/a.txt"]}}

ParamsFor(method) ==
    CASE method = "tools/call" -> CallParams
      [] method = "resources/read" -> ReadParams
      [] method = "resources/list" ->
            {None} \cup {Some([NoParams EXCEPT !.project = p]) : p \in ProjectIdArgs}
      [] OTHER -> {None}

\* McpServer reads only `name` and `uri` of the params
StdioParamsFor(method) ==
    CASE method = "tools/call" ->
           {None, Some(NoParams)} \cup
           {Some([NoParams EXCEPT !.name = Some(n)]) :
               n \in {"read_file", "todo_add", "unknown_tool"}}
      [] method = "resources/read" -> ReadParams
      [] OTHER -> {None}

StdioRequests ==
    {[jsonrpc |-> v, method |-> m, params |-> None, id |-> i] :
        v \in {"2.0", "1.0"}, m \in Methods, i \in {None, Some(7)}} \cup
    UNION {{[jsonrpc |-> "2.0", method |-> m, params |-> ps, id |-> i] :
               ps \in StdioParamsFor(m), i \in {None, Some(7)}} : m \in Methods}

\* the requests of one method: without params under each version and id, and
\* with params as a request that carries an id
Requests(method) ==
    {[jsonrpc |-> v, method |-> method, params |-> None, id |-> i] :
        v \in {"2.0", "1.0"}, i \in {None, Some(7)}} \cup
    {[jsonrpc |-> "2.0", method |-> method, params |-> ps, id |-> i] :
        ps \in ParamsFor(method) \ {None}, i \in {None, Some(7)} \ {None}}

AllRequests == UNION {Requests(m) : m \in Methods}

\* the host outcomes that can differ for a request: only read_file and
\* build_run_command run anything on the host
OutcomesFor(req) ==
    IF \/ req.method = "resources/read"
       \/ /\ req.method = "tools/call" /\ req.params # None
          /\ Get(req.params).name \in {Some("read_file"), Some("build_run_command")}
    THEN {"ok", "fail"} ELSE {"ok"}

----------------------------------------------------------------------------
(* The application process: AppState::new at every start, and commands that
   run get_project_store concurrently (app_state.rs) *)

Callers == {"cmd1", "cmd2"}

\* get_project_store from its start to the end of the registry lookup: the
\* cache is read under the read lock, which is released before the lookup
OpenBegin(t, project_id) ==
    /\ opening[t].stage # "miss"
    /\ opening' = [opening EXCEPT ![t] =
          IF project_id \in DOMAIN cache
          THEN [stage |-> "hit", project |-> project_id, ok |-> TRUE,
                store |-> cache[project_id]]
          ELSE IF project_id \in registry
          THEN [stage |-> "miss", project |-> project_id, ok |-> TRUE, store |-> 0]
          ELSE [stage |-> "failed", project |-> project_id, ok |-> FALSE, store |-> 0]]
    /\ last' = Ret("get_project_store", project_id,
                   project_id \in DOMAIN cache \/ project_id \in registry, 0)
    /\ UNCHANGED <<registry, cache>>

\* the rest of the miss path: Arc::new(ProjectStore::new(project)), an
\* instance nobody holds yet, then insert and return
OpenFinish(t) ==
    /\ opening[t].stage = "miss"
    /\ LET held == {cache[p] : p \in DOMAIN cache} \cup {opening[u].store : u \in Callers}
           store == SetMax(held \cup {0}) + 1
       IN  /\ cache' = insert(cache, opening[t].project, store)
           /\ opening' = [opening EXCEPT ![t] = [@ EXCEPT !.stage = "created",
                                                           !.store = store]]
    /\ last' = Ret("insert", opening[t].project, TRUE, 0)
    /\ UNCHANGED registry

\* the process ends and starts again: AppState::new on the registry and the
\* project databases that are on disk
Startup ==
    LET r == ensure_default_project(registry, [p \in {} |-> 0])
    IN  /\ registry' = r.registry
        /\ cache' = r.cache
        /\ opening' = [t \in Callers |-> [stage |-> "idle", project |-> "default",
                                           ok |-> TRUE, store |-> 0]]
        /\ last' = Ret("new", "default", r.ok, 0)

----------------------------------------------------------------------------
(* Store calls taken one SQL statement at a time.  Every call opens its own *)
(* connection (get_db) and runs its statements in autocommit mode, and the  *)
(* tool handlers hold only the read guard of the store, so the statements   *)
(* of two calls on one database file can alternate.                         *)

\* a task that is inside no call
NotRunning == [op |-> "none", pc |-> "idle", project |-> "default", id |-> 0,
               position |-> 0, cur |-> None, should_default |-> FALSE]

\* The statements before the first write of TodoStore::add, remove and
\* move_to: add mints the id and settles the position (SELECT MAX(position)
\* when none is given), remove and move_to run find_position; move_to
\* returns here when the id is absent or already at the target.
TodoCallBegin(t, op, p, id, posOpt) ==
    /\ running[t].pc = "idle"
    /\ LET rows == todos[db_path(p)]
           call == [NotRunning EXCEPT !.op = op, !.project = p, !.id = id]
       IN  CASE op = "add" ->
                  /\ nextId < MaxIds /\ id = nextId + 1
                  /\ nextId' = id
                  /\ running' = [running EXCEPT ![t] =
                        [call EXCEPT !.pc = "shift",
                                     !.position = IF posOpt = None THEN next_position(rows)
                                                  ELSE Get(posOpt)]]
                  /\ UNCHANGED last
             [] op = "remove" ->
                  /\ running' = [running EXCEPT ![t] =
                        [call EXCEPT !.pc = "delete", !.cur = find_position(rows, id)]]
                  /\ UNCHANGED <<nextId, last>>
             [] op = "move_to" ->
                  /\ posOpt # None
                  /\ IF find_position(rows, id) = None
                        THEN /\ last' = Ret("move_to", p, FALSE, id)
                             /\ UNCHANGED running
                     ELSE IF Get(find_position(rows, id)) = Get(posOpt)
                        THEN /\ last' = Ret("move_to", p, TRUE, id)
                             /\ UNCHANGED running
                     ELSE /\ running' = [running EXCEPT ![t] =
                                [call EXCEPT !.pc = "shift", !.position = Get(posOpt),
                                             !.cur = find_position(rows, id)]]
                          /\ UNCHANGED last
                  /\ UNCHANGED nextId
    /\ UNCHANGED <<todos, notes, builds>>

\* The first write of the call: shift_positions(position, 1) of add, the
\* DELETE of remove (no row deleted is the not-found error; no position found
\* before is the end of the call), the range UPDATE of move_to.
TodoCallShift(t) ==
    LET call == running[t]
        rows == todos[db_path(call.project)]
        next == [running EXCEPT ![t] = [call EXCEPT !.pc = "write"]]
        done == [running EXCEPT ![t] = NotRunning]
    IN  /\ call.op \in {"add", "remove", "move_to"}
        /\ call.pc \in {"shift", "delete"}
        /\ CASE call.op = "add" ->
                  /\ todos' = [todos EXCEPT ![db_path(call.project)] =
                                  shift_positions(rows, call.position, 1)]
                  /\ running' = next
                  /\ UNCHANGED last
             [] call.op = "remove" ->
                  /\ todos' = [todos EXCEPT ![db_path(call.project)] =
                                  {r \in rows : r.id # call.id}]
                  /\ IF ~\E r \in rows : r.id = call.id
                        THEN /\ running' = done
                             /\ last' = Ret("remove", call.project, FALSE, call.id)
                     ELSE IF call.cur = None
                        THEN /\ running' = done
                             /\ last' = Ret("remove", call.project, TRUE, call.id)
                     ELSE /\ running' = next
                          /\ UNCHANGED last
             [] call.op = "move_to" ->
                  /\ todos' = [todos EXCEPT ![db_path(call.project)] =
                                  IF call.position > Get(call.cur)
                                  THEN MoveShiftDown(rows, Get(call.cur), call.position)
                                  ELSE MoveShiftUp(rows, Get(call.cur), call.position)]
                  /\ running' = next
                  /\ UNCHANGED last
        /\ UNCHANGED <<notes, builds, nextId>>

\* The last statement of the call, after which it returns: the INSERT of add,
\* shift_positions(position + 1, -1) of remove, the UPDATE of move_to that
\* assigns the target.
TodoCallWrite(t) ==
    LET call == running[t]
        rows == todos[db_path(call.project)]
    IN  /\ call.op \in {"add", "remove", "move_to"}
        /\ call.pc = "write"
        /\ todos' = [todos EXCEPT ![db_path(call.project)] =
              CASE call.op = "add" ->
                     rows \cup {[id |-> call.id, position |-> call.position,
                                 completed |-> FALSE, updated_at |-> "created_at"]}
                [] call.op = "remove" -> shift_positions(rows, Get(call.cur) + 1, 0 - 1)
                [] call.op = "move_to" -> MoveAssign(rows, call.id, call.position)]
        /\ running' = [running EXCEPT ![t] = NotRunning]
        /\ last' = Ret(call.op, call.project, TRUE, call.id)
        /\ UNCHANGED <<notes, builds, nextId>>

\* A fault between two statements of a call (the process dies, or the next
\* statement fails and `?` returns its error): no statement is undone.
TodoCallFault(t) ==
    /\ running[t].op \in {"add", "remove", "move_to"}
    /\ running[t].pc # "idle"
    /\ running' = [running EXCEPT ![t] = NotRunning]
    /\ last' = Ret("fault", running[t].project, FALSE, running[t].id)
    /\ UNCHANGED <<todos, notes, builds, nextId>>

\* The entry of BuildCommandStore::add and set_default: add mints the id and
\* runs default_is_missing (SELECT COUNT(*) .. WHERE is_default = 1), and
\* skips clear_default when a row is flagged; set_default has clear_default
\* as its first statement.
BuildCallBegin(t, op, p, id) ==
    /\ running[t].pc = "idle"
    /\ op \in {"build_add", "set_default"}
    /\ LET should_default == default_is_missing(builds[db_path(p)])
           call == [NotRunning EXCEPT !.op = op, !.project = p, !.id = id]
       IN  IF op = "build_add"
           THEN /\ nextId < MaxIds /\ id = nextId + 1
                /\ nextId' = id
                /\ running' = [running EXCEPT ![t] =
                      [call EXCEPT !.pc = IF should_default THEN "clear" ELSE "write",
                                   !.should_default = should_default]]
           ELSE /\ running' = [running EXCEPT ![t] = [call EXCEPT !.pc = "clear"]]
                /\ UNCHANGED nextId
    /\ UNCHANGED <<todos, notes, builds, last>>

\* clear_default: UPDATE build_commands SET is_default = 0
BuildCallClear(t) ==
    /\ running[t].op \in {"build_add", "set_default"}
    /\ running[t].pc = "clear"
    /\ builds' = [builds EXCEPT ![db_path(running[t].project)] = clear_default(@)]
    /\ running' = [running EXCEPT ![t] = [@ EXCEPT !.pc = "write"]]
    /\ UNCHANGED <<todos, notes, nextId, last>>

\* The last statement of the call: the INSERT of add, with the flag the
\* count gave it, or the UPDATE .. SET is_default = 1 WHERE id of
\* set_default, which is the not-found error when it changes no row.
BuildCallWrite(t) ==
    LET call == running[t]
        rows == builds[db_path(call.project)]
    IN  /\ call.op \in {"build_add", "set_default"}
        /\ call.pc = "write"
        /\ builds' = [builds EXCEPT ![db_path(call.project)] =
              IF call.op = "build_add"
              THEN rows \cup {[id |-> call.id, is_default |-> call.should_default]}
              ELSE MarkDefault(rows, call.id)]
        /\ running' = [running EXCEPT ![t] = NotRunning]
        /\ last' = Ret(call.op, call.project,
                       call.op = "build_add" \/ \E r \in rows : r.id = call.id, call.id)
        /\ UNCHANGED <<todos, notes, nextId>>

----------------------------------------------------------------------------
(* The HTTP server handle of AppState and the commands that start and stop *)
(* the server (lib.rs).  A handle is the JoinHandle of the task that       *)
(* start_http_server spawns around the listener it has bound.              *)

\* start_server that goes on to bind whether or not a handle is installed
StartServerCheck_NoCheck(t) ==
    /\ running[t].pc = "idle"
    /\ running' = [running EXCEPT ![t] =
                      [NotRunning EXCEPT !.op = "start_server", !.pc = "bind"]]
    /\ UNCHANGED <<last, http_server, serving, nextId>>

\* start_server up to its read of the port: with a handle installed
\* (is_server_running) it returns running here
StartServerCheck(t) ==
    /\ running[t].pc = "idle"
    /\ IF http_server # None
          THEN /\ last' = Ret("start_server", "default", TRUE, Get(http_server))
               /\ UNCHANGED running
          ELSE /\ running' = [running EXCEPT ![t] =
                      [NotRunning EXCEPT !.op = "start_server", !.pc = "bind"]]
               /\ UNCHANGED last
    /\ UNCHANGED <<http_server, serving, nextId>>

\* start_http_server: TcpListener::bind on 127.0.0.1:port fails while a
\* server task holds the port, and can fail for reasons of the host (free);
\* otherwise the server task is spawned and its handle, which no earlier
\* task had, is returned
StartServerBind(t, free) ==
    /\ running[t].op = "start_server" /\ running[t].pc = "bind"
    /\ IF serving = {} /\ free
          THEN /\ nextId < MaxIds
               /\ nextId' = nextId + 1
               /\ serving' = {nextId + 1}
               /\ running' = [running EXCEPT ![t] =
                                [@ EXCEPT !.pc = "install", !.id = nextId + 1]]
               /\ UNCHANGED last
          ELSE /\ running' = [running EXCEPT ![t] = NotRunning]
               /\ last' = Ret("start_server", "default", FALSE, 0)
               /\ UNCHANGED <<serving, nextId>>
    /\ UNCHANGED http_server

\* set_server_handle under the write guard, and the return of start_server
StartServerInstall(t) ==
    /\ running[t].op = "start_server" /\ running[t].pc = "install"
    /\ http_server' = Some(running[t].id)
    /\ running' = [running EXCEPT ![t] = NotRunning]
    /\ last' = Ret("start_server", "default", TRUE, running[t].id)
    /\ UNCHANGED <<serving, nextId>>

\* the stop_server command: AppState::stop_server takes the handle out and
\* aborts its task
StopServer ==
    /\ http_server' = None
    /\ serving' = serving \ http_server
    /\ last' = Ret("stop_server", "default", TRUE,
                   IF http_server = None THEN 0 ELSE Get(http_server))
    /\ UNCHANGED <<running, nextId>>

\* the get_server_status command: what is_server_running() returns
GetServerStatus ==
    /\ last' = Ret("get_server_status", "default", http_server # None, 0)
    /\ UNCHANGED <<running, nextId, http_server, serving>>

----------------------------------------------------------------------------
(* Initial state: AppState::new / McpServer::new on fresh storage *)

Init ==
    /\ todos = [p \in Projects |-> {}]
    /\ notes = [p \in Projects |-> {}]
    /\ builds = [p \in Projects |-> {}]
    /\ nextId = 0
    /\ last = Ret("none", StoreProject, TRUE, 0)
    /\ state = "Uninitialized"
    /\ mreq = [jsonrpc |-> "", method |-> "", id |-> None, params |-> None,
               before |-> "Uninitialized"]
    /\ mresp = Resp("none", 0, "none", None)
    /\ stdin_read = 0
    /\ stdout = <<>>
    /\ hresp = Resp("none", 0, "none", None)
    /\ registry = ensure_default_project({}, [p \in {} |-> 0]).registry
    /\ cache = ensure_default_project({}, [p \in {} |-> 0]).cache
    /\ event_history = <<>>
    /\ evSeq = 0
    /\ rec = [r \in Recorders |-> "idle"]
    /\ stdin = <<>>
    /\ pin = <<>>
    /\ posts = <<>>
    /\ pout = <<>>
    /\ event_sender = <<>>
    /\ receivers = [s \in Subscribers |->
                       [status |-> "none", next |-> 0, got |-> <<>>, missed |-> {}]]
    /\ pending = [r \in Recorders |-> 0]
    \* no command is inside get_project_store
    /\ opening = [t \in Callers |-> [stage |-> "idle", project |-> "default",
                                          ok |-> TRUE, store |-> 0]]
    /\ running = [t \in Callers |-> NotRunning]
    /\ http_server = None
    /\ serving = {}

----------------------------------------------------------------------------
(* One TodoStore and one ContextNoteStore, called sequentially *)

otherThanStores == <<state, mreq, mresp, stdin_read, stdout, hresp, registry, cache,
                     event_history, evSeq, rec, stdin, proxyVars, chanVars, opening,
                     running, http_server, serving>>

NextOrdered ==
    \/ /\ \E o \in PosOpts : TodoAdd(StoreProject, o)
       /\ UNCHANGED otherThanStores
    \/ /\ \E id \in Ids : TodoRemove(StoreProject, id)
       /\ UNCHANGED otherThanStores
    \/ /\ \E id \in Ids, n \in PosRange : TodoMoveTo(StoreProject, id, n)
       /\ UNCHANGED otherThanStores
    \/ /\ \E id \in Ids, b \in BOOLEAN : TodoSetCompleted(StoreProject, id, b)
       /\ UNCHANGED otherThanStores

SpecOrdered == Init /\ [][NextOrdered]_vars

(* One TodoStore holding a few rows, with every call it offers *)

MaxRows == 2         \* rows added to the store, per behaviour

NextTodo ==
    \/ /\ nextId < MaxRows
       /\ \E o \in PosOpts : TodoAdd(StoreProject, o)
       /\ UNCHANGED otherThanStores
    \/ /\ \E id \in Ids : TodoRemove(StoreProject, id)
       /\ UNCHANGED otherThanStores
    \/ /\ \E id \in Ids, n \in PosRange : TodoMoveTo(StoreProject, id, n)
       /\ UNCHANGED otherThanStores
    \/ /\ \E id \in Ids, b \in BOOLEAN : TodoSetCompleted(StoreProject, id, b)
       /\ UNCHANGED otherThanStores
    \/ /\ TodoGetNext(StoreProject)
       /\ UNCHANGED otherThanStores

SpecTodo == Init /\ [][NextTodo]_vars

NextNotes ==
    \/ /\ \E o \in PosOpts : NoteAdd(StoreProject, o)
       /\ UNCHANGED otherThanStores
    \/ /\ \E id \in Ids : NoteRemove(StoreProject, id)
       /\ UNCHANGED otherThanStores
    \/ /\ \E id \in Ids, n \in PosRange : NoteMoveTo(StoreProject, id, n)
       /\ UNCHANGED otherThanStores

SpecNotes == Init /\ [][NextNotes]_vars

NextBuild ==
    \/ /\ BuildAdd(StoreProject)
       /\ UNCHANGED otherThanStores
    \/ /\ \E id \in Ids : BuildRemove(StoreProject, id)
       /\ UNCHANGED otherThanStores
    \/ /\ \E id \in Ids : BuildSetDefault(StoreProject, id)
       /\ UNCHANGED otherThanStores

SpecBuild == Init /\ [][NextBuild]_vars

----------------------------------------------------------------------------
(* One TodoStore whose calls can be cut short between two statements *)

\* behaviours are followed up to their first fault, on a store of MaxRows rows
NextFault ==
    \/ /\ last.op # "fault" /\ nextId < MaxRows
       /\ \E o \in PosOpts : TodoCallBegin("cmd1", "add", StoreProject, nextId + 1, o)
       /\ UNCHANGED <<mcpVars, httpVars, busVars, proxyVars, chanVars>>
    \/ /\ last.op # "fault"
       /\ \E op \in {"remove", "move_to"}, id \in Ids, o \in PosOpts :
             TodoCallBegin("cmd1", op, StoreProject, id, o)
       /\ UNCHANGED <<mcpVars, httpVars, busVars, proxyVars, chanVars>>
    \/ /\ TodoCallShift("cmd1")
       /\ UNCHANGED <<mcpVars, httpVars, busVars, proxyVars, chanVars>>
    \/ /\ TodoCallWrite("cmd1")
       /\ UNCHANGED <<mcpVars, httpVars, busVars, proxyVars, chanVars>>
    \/ /\ TodoCallFault("cmd1")
       /\ UNCHANGED <<mcpVars, httpVars, busVars, proxyVars, chanVars>>

SpecFault == Init /\ [][NextFault]_vars

----------------------------------------------------------------------------
(* One TodoStore called by two tool handlers at a time, each call with     *)
(* arguments that are in range when it is made                             *)

NextRace ==
    \/ /\ nextId < MaxRows
       /\ \E t \in Callers :
             \E o \in {None} \cup {Some(n) : n \in 0..Cardinality(todos[StoreProject])} :
                TodoCallBegin(t, "add", StoreProject, nextId + 1, o)
       /\ UNCHANGED <<mcpVars, httpVars, busVars, proxyVars, chanVars>>
    \/ /\ \E t \in Callers, r \in todos[StoreProject] :
             TodoCallBegin(t, "remove", StoreProject, r.id, None)
       /\ UNCHANGED <<mcpVars, httpVars, busVars, proxyVars, chanVars>>
    \/ /\ \E t \in Callers, r \in todos[StoreProject] :
             \E n \in 0..(Cardinality(todos[StoreProject]) - 1) :
                TodoCallBegin(t, "move_to", StoreProject, r.id, Some(n))
       /\ UNCHANGED <<mcpVars, httpVars, busVars, proxyVars, chanVars>>
    \/ /\ \E t \in Callers : TodoCallShift(t)
       /\ UNCHANGED <<mcpVars, httpVars, busVars, proxyVars, chanVars>>
    \/ /\ \E t \in Callers : TodoCallWrite(t)
       /\ UNCHANGED <<mcpVars, httpVars, busVars, proxyVars, chanVars>>

SpecRace == Init /\ [][NextRace]_vars

----------------------------------------------------------------------------
(* One BuildCommandStore called by two tool handlers at a time *)

NextBuildRace ==
    \/ /\ nextId < MaxRows
       /\ \E t \in Callers : BuildCallBegin(t, "build_add", StoreProject, nextId + 1)
       /\ UNCHANGED <<mcpVars, httpVars, busVars, proxyVars, chanVars>>
    \/ /\ \E t \in Callers, id \in 1..MaxRows :
             BuildCallBegin(t, "set_default", StoreProject, id)
       /\ UNCHANGED <<mcpVars, httpVars, busVars, proxyVars, chanVars>>
    \/ /\ \E t \in Callers : BuildCallClear(t)
       /\ UNCHANGED <<mcpVars, httpVars, busVars, proxyVars, chanVars>>
    \/ /\ \E t \in Callers : BuildCallWrite(t)
       /\ UNCHANGED <<mcpVars, httpVars, busVars, proxyVars, chanVars>>

SpecBuildRace == Init /\ [][NextBuildRace]_vars

----------------------------------------------------------------------------
(* The application with two start_server commands and stop_server at a time *)

NextServer ==
    \/ /\ \E t \in Callers : StartServerCheck(t)
       /\ UNCHANGED <<todos, notes, builds, mcpVars, hresp, registry, cache,
                      opening, busVars, proxyVars, chanVars>>
    \/ /\ \E t \in Callers, free \in BOOLEAN : StartServerBind(t, free)
       /\ UNCHANGED <<todos, notes, builds, mcpVars, hresp, registry, cache,
                      opening, busVars, proxyVars, chanVars>>
    \/ /\ \E t \in Callers : StartServerInstall(t)
       /\ UNCHANGED <<todos, notes, builds, mcpVars, hresp, registry, cache,
                      opening, busVars, proxyVars, chanVars>>
    \/ /\ StopServer
       /\ UNCHANGED <<todos, notes, builds, mcpVars, hresp, registry, cache,
                      opening, busVars, proxyVars, chanVars>>
    \/ /\ GetServerStatus
       /\ UNCHANGED <<todos, notes, builds, mcpVars, hresp, registry, cache,
                      opening, busVars, proxyVars, chanVars>>

SpecServer == Init /\ [][NextServer]_vars

----------------------------------------------------------------------------
(* The standalone server process: run_stdio over McpServer *)

otherThanStdio == <<todos, notes, builds, nextId, last, hresp, registry, cache,
                    event_history, evSeq, rec, proxyVars, chanVars, opening, running, http_server, serving>>

NextStdio ==
    \/ /\ RunBlankLine
       /\ UNCHANGED otherThanStdio
    \/ /\ RunMalformedLine
       /\ UNCHANGED otherThanStdio
    \/ /\ \E req \in StdioRequests : \E out \in OutcomesFor(req) : RunRequestLine(req, out)
       /\ UNCHANGED otherThanStdio
    \/ /\ \E k \in 1..MaxBatch :
             \E reqs \in [1..k -> {[jsonrpc |-> "2.0", method |-> m, params |-> None,
                                    id |-> Some(7)] : m \in {"initialize", "tools/list"}}] :
                RunBatchLine(reqs)
       /\ UNCHANGED otherThanStdio
    \/ /\ RunEndOfInput
       /\ UNCHANGED otherThanStdio

SpecStdio == Init /\ [][NextStdio]_vars

----------------------------------------------------------------------------
(* Both dispatchers, each fed the same requests one at a time *)

otherThanDispatch == <<notes, last, stdin_read, stdout, registry, rec, stdin,
                       proxyVars, chanVars, opening, running, http_server, serving>>

NextDispatch ==
    \/ /\ \E req \in {r \in AllRequests : r.method = "initialize"} :
             \E out \in OutcomesFor(req) : StdioHandle(req, out) /\ handle_mcp_request(req, out)
       /\ UNCHANGED otherThanDispatch
    \/ /\ \E req \in {r \in AllRequests : r.method = "notifications/initialized"} :
             \E out \in OutcomesFor(req) : StdioHandle(req, out) /\ handle_mcp_request(req, out)
       /\ UNCHANGED otherThanDispatch
    \/ /\ \E req \in {r \in AllRequests : r.method = "tools/list"} :
             \E out \in OutcomesFor(req) : StdioHandle(req, out) /\ handle_mcp_request(req, out)
       /\ UNCHANGED otherThanDispatch
    \/ /\ \E req \in {r \in AllRequests : r.method = "tools/call"} :
             \E out \in OutcomesFor(req) : StdioHandle(req, out) /\ handle_mcp_request(req, out)
       /\ UNCHANGED otherThanDispatch
    \/ /\ \E req \in {r \in AllRequests : r.method = "resources/list"} :
             \E out \in OutcomesFor(req) : StdioHandle(req, out) /\ handle_mcp_request(req, out)
       /\ UNCHANGED otherThanDispatch
    \/ /\ \E req \in {r \in AllRequests : r.method = "resources/read"} :
             \E out \in OutcomesFor(req) : StdioHandle(req, out) /\ handle_mcp_request(req, out)
       /\ UNCHANGED otherThanDispatch
    \/ /\ \E req \in {r \in AllRequests : r.method = "unknown/method"} :
             \E out \in OutcomesFor(req) : StdioHandle(req, out) /\ handle_mcp_request(req, out)
       /\ UNCHANGED otherThanDispatch
    \/ /\ CreateProject("alpha")
       /\ UNCHANGED <<todos, notes, builds, nextId, last, state, mreq, mresp, stdin_read,
                      stdout, hresp, cache, event_history, evSeq, rec, stdin,
                      proxyVars, chanVars, opening, running, http_server, serving>>

SpecDispatch == Init /\ [][NextDispatch]_vars

----------------------------------------------------------------------------
(* Both dispatchers on the requests the standalone server tells apart *)

NextPair ==
    \/ /\ \E req \in {r \in StdioRequests : r.jsonrpc # "2.0"} :
             StdioHandle(req, "ok") /\ handle_mcp_request(req, "ok")
       /\ UNCHANGED otherThanDispatch
    \/ /\ \E req \in {r \in StdioRequests : r.jsonrpc = "2.0"} :
             \E out \in OutcomesFor(req) : StdioHandle(req, out) /\ handle_mcp_request(req, out)
       /\ UNCHANGED otherThanDispatch

SpecPair == Init /\ [][NextPair]_vars

----------------------------------------------------------------------------
(* Both dispatchers, each given the same input lines *)

NextEnvelope ==
    \/ /\ \E req \in StdioRequests : \E out \in OutcomesFor(req) :
             RunRequestLine(req, out) /\ handle_mcp_request(req, out)
       /\ UNCHANGED <<notes, last, registry, rec, proxyVars, chanVars, opening, running, http_server, serving>>
    \/ /\ RunMalformedLine /\ PostUnparsed
       /\ UNCHANGED <<notes, last, registry, rec, proxyVars, chanVars, opening, running, http_server, serving>>
    \/ /\ \E reqs \in [1..MaxBatch -> {[jsonrpc |-> "2.0", method |-> "tools/list",
                                         params |-> None, id |-> Some(7)]}] :
             RunBatchLine(reqs) /\ PostUnparsed
       /\ UNCHANGED <<notes, last, registry, rec, proxyVars, chanVars, opening, running, http_server, serving>>

SpecEnvelope == Init /\ [][NextEnvelope]_vars

----------------------------------------------------------------------------
(* The proxy process: run_stdio_proxy in front of the HTTP endpoint *)

NextProxy ==
    \/ /\ ProxyBlankLine
       /\ UNCHANGED <<storeVars, mcpVars, httpVars, busVars, chanVars, running>>
    \/ /\ ProxyInvalidLine
       /\ UNCHANGED <<storeVars, mcpVars, httpVars, busVars, chanVars, running>>
    \* what request.get("id") finds in the line, and the Result of
    \* forward_request: a response body, or the proxy's own error line
    \/ /\ \E id \in {"absent", "null", "number"} :
             \E outcome \in {[ok |-> TRUE, text |-> b] : b \in {"body_a", "body_b"}}
                             \cup {[ok |-> FALSE, text |-> "error -32603 id null"]} :
                ProxyRequestLine(id, outcome)
       /\ UNCHANGED <<storeVars, mcpVars, httpVars, busVars, chanVars, running>>

SpecProxy == Init /\ [][NextProxy]_vars

----------------------------------------------------------------------------
(* The event bus under concurrent recorders *)

NextBus ==
    \/ /\ \E r \in Recorders : RecordEventInsert(r)
       /\ UNCHANGED <<storeVars, mcpVars, hresp, registry, cache, opening, proxyVars, chanVars,
                      running, http_server, serving>>
    \/ /\ \E r \in Recorders : RecordEventSend(r)
       /\ UNCHANGED <<storeVars, mcpVars, hresp, registry, cache, opening, proxyVars, chanVars,
                      running, http_server, serving>>

SpecBus == Init /\ [][NextBus]_vars

----------------------------------------------------------------------------
(* The event bus with a subscriber, recorded into by one caller at a time
   until the channel is full *)

otherThanChannel == <<storeVars, mcpVars, httpVars, proxyVars, running>>

NextChannel ==
    \/ /\ evSeq < MaxSent /\ (\A r \in Recorders : rec[r] = "idle")
       /\ \E r \in Recorders : RecordBegin(r)
       /\ UNCHANGED otherThanChannel
    \/ /\ \E r \in Recorders : RecordFinish(r)
       /\ UNCHANGED otherThanChannel
    \/ /\ evSeq <= MaxSubscribeAt
       /\ Subscribe("sse1")
       /\ UNCHANGED otherThanChannel
    \/ /\ StreamRecv("sse1")
       /\ UNCHANGED otherThanChannel

SpecChannel == Init /\ [][NextChannel]_vars

(* The same with a subscriber that never reads; a recorder that can take a
   step is not kept from it for ever *)

NextStalled ==
    \/ /\ evSeq < MaxSent /\ (\A r \in Recorders : rec[r] = "idle")
       /\ \E r \in Recorders : RecordBegin(r)
       /\ UNCHANGED otherThanChannel
    \/ /\ \E r \in Recorders : RecordFinish(r)
       /\ UNCHANGED otherThanChannel
    \/ /\ evSeq <= MaxSubscribeAt
       /\ Subscribe("sse1")
       /\ UNCHANGED otherThanChannel

SpecStalled ==
    /\ Init /\ [][NextStalled]_vars
    /\ WF_vars((\E r \in Recorders : RecordFinish(r)) /\ UNCHANGED otherThanChannel)

(* A few events, and receivers that subscribe at any time and keep reading *)

NextLive ==
    \/ /\ evSeq < MaxLive
       /\ \E r \in Recorders : RecordBegin(r)
       /\ UNCHANGED otherThanChannel
    \/ /\ \E r \in Recorders : RecordFinish(r)
       /\ UNCHANGED otherThanChannel
    \/ /\ \E s \in Subscribers : Subscribe(s)
       /\ UNCHANGED otherThanChannel
    \/ /\ \E s \in Subscribers : StreamRecv(s)
       /\ UNCHANGED otherThanChannel

SpecLive == Init /\ [][NextLive]_vars

----------------------------------------------------------------------------
(* The project store cache behind the commands of the application *)

\* one get_project_store call
GetStore(project_id) ==
    LET r == get_project_store(cache, registry, project_id)
    IN  /\ cache' = r.cache
        /\ last' = [op |-> "get_project_store", project |-> project_id, ok |-> r.ok,
                    id |-> r.store, error |-> r.error]
        /\ UNCHANGED <<todos, notes, builds, nextId, registry>>

\* the add_todo command: the store of the project, then TodoStore::add
AddTodo(project_id, posOpt) ==
    LET r == get_project_store(cache, registry, project_id)
    IN  /\ cache' = r.cache
        /\ IF r.ok THEN TodoAdd(project_id, posOpt)
           ELSE /\ last' = Ret("add", project_id, FALSE, 0)
                /\ UNCHANGED <<todos, notes, builds, nextId>>
        /\ UNCHANGED registry

NextCache ==
    \/ /\ \E a \in ProjectIdArgs \cup {Some("beta")} :
             GetStore(IF a = None THEN "default" ELSE Get(a))
       /\ UNCHANGED <<mcpVars, hresp, busVars, proxyVars, chanVars, opening, running,
                      http_server, serving>>
    \/ /\ \E a \in ProjectIdArgs \cup {Some("beta")}, o \in {None, Some(0), Some(MaxPos)} :
             AddTodo(IF a = None THEN "default" ELSE Get(a), o)
       /\ UNCHANGED <<mcpVars, hresp, busVars, proxyVars, chanVars, opening, running,
                      http_server, serving>>
    \/ /\ \E p \in {"alpha", "beta"} : CreateProject(p)
       /\ UNCHANGED <<storeVars, cache, mcpVars, hresp, busVars, proxyVars, chanVars,
                      opening, running, http_server, serving>>

SpecCache == Init /\ [][NextCache]_vars

----------------------------------------------------------------------------
(* The application process with two commands at a time *)

NextProcess ==
    \/ /\ \E t \in Callers, a \in ProjectIdArgs :
             OpenBegin(t, IF a = None THEN "default" ELSE Get(a))
       /\ UNCHANGED <<todos, notes, builds, nextId, hresp, mcpVars, busVars, proxyVars,
                      chanVars, running, http_server, serving>>
    \/ /\ \E t \in Callers : OpenFinish(t)
       /\ UNCHANGED <<todos, notes, builds, nextId, hresp, mcpVars, busVars, proxyVars,
                      chanVars, running, http_server, serving>>
    \/ /\ CreateProject("alpha")
       /\ last' = Ret("create_project", "alpha", TRUE, 0)
       /\ UNCHANGED <<cache, opening, todos, notes, builds, nextId, hresp, mcpVars, busVars,
                      proxyVars, chanVars, running, http_server, serving>>
    \/ /\ Startup
       /\ UNCHANGED <<todos, notes, builds, nextId, hresp, mcpVars, busVars, proxyVars,
                      chanVars, running, http_server, serving>>

SpecProcess == Init /\ [][NextProcess]_vars

----------------------------------------------------------------------------
(* Claims *)

Contiguous(rows) ==
    /\ Positions(rows) = 0..(Cardinality(rows) - 1)
    /\ Cardinality(Positions(rows)) = Cardinality(rows)

\* C1: after any sequence of add / remove / move_to calls on one ordered
\* store, whatever position arguments they carry, the stored positions are
\* exactly {0,...,count-1}, without duplicates or gaps.
C1_Contiguity == Contiguous(todos[StoreProject])

\* C2: after any sequence of add, set_default (successful or failing) and
\* remove calls on one build-command store, at most one row is flagged default.
C2_DefaultUnique == Cardinality({r \in builds[StoreProject] : r.is_default}) <= 1

\* a successful set_default moved the flag away from an older default row
C2_Witness ==
    /\ last.op = "set_default" /\ last.ok
    /\ Cardinality(builds[StoreProject]) >= 2
    /\ \E r \in builds[StoreProject] : r.is_default /\ r.id = last.id /\ r.id > 1

\* the standalone server has answered a version-2.0 request for `method`
Answered(method) == mreq.jsonrpc = "2.0" /\ mreq.method = method

StateCheckedMethods == {"tools/list", "tools/call", "resources/list", "resources/read"}

\* C3 (as claimed): in a dispatcher that is not Initialized, every request
\* whose method is not initialize is answered with the NotInitialized error
\* and leaves the state unchanged.
C3_AllMethodsNeedInit ==
    (mreq.jsonrpc = "2.0" /\ mreq.method \notin {"", "initialize"}
        /\ mreq.before # "Initialized")
    => (mresp.kind = "error" /\ mresp.what = "NotInitialized" /\ state = mreq.before)

\* C3 (amended): in the standalone dispatcher, while not Initialized, every
\* version-2.0 tools/list, tools/call, resources/list and resources/read
\* request is answered with the NotInitialized error, and every request other
\* than initialize leaves the state unchanged.
C3_CheckedMethodsNeedInit ==
    /\ (mreq.jsonrpc = "2.0" /\ mreq.method \in StateCheckedMethods
            /\ mreq.before # "Initialized")
        => (mresp.kind = "error" /\ mresp.what = "NotInitialized" /\ mresp.tools = {})
    /\ (mreq.method \notin {"", "initialize"} /\ mreq.before # "Initialized")
        => state = mreq.before

\* tools/list arrived before any initialize and was refused
C3_Witness ==
    /\ Answered("tools/list") /\ mreq.before = "Uninitialized"
    /\ mresp.kind = "error"
    /\ state = "Uninitialized"

\* C4: an initialize request received while the standalone dispatcher is
\* already Initialized is answered with the AlreadyInitialized error, without
\* a result, and the state stays Initialized.
C4_SecondInitializeFails ==
    (Answered("initialize") /\ mreq.before = "Initialized")
    => (mresp.kind = "error" /\ mresp.what = "AlreadyInitialized" /\ state = "Initialized")

\* a second initialize has been answered
C4_Witness ==
    /\ Answered("initialize") /\ mreq.before = "Initialized"
    /\ Len(stdout) >= 2
    /\ stdout[1].kind = "result" /\ stdout[1].what = "initialize"

\* C5: a version-2.0 initialize received while Uninitialized succeeds with the
\* initialize result and moves the state to Initialized; the state then stays
\* Initialized, and every later version-2.0 tools/list succeeds with a
\* non-empty tool list.
C5_InitializeThenList ==
    /\ [](/\ (Answered("initialize") /\ mreq.before = "Uninitialized")
              => (mresp.kind = "result" /\ mresp.what = "initialize"
                     /\ state = "Initialized")
          /\ (Answered("tools/list") /\ mreq.before = "Initialized")
              => (mresp.kind = "result" /\ mresp.what = "tools" /\ mresp.tools # {}))
    /\ [][state = "Initialized" => state' = "Initialized"]_vars

\* initialize succeeded on the first line and tools/list on a later one
C5_Witness ==
    /\ Len(stdout) >= 2
    /\ stdout[1].kind = "result" /\ stdout[1].what = "initialize"
    /\ Answered("tools/list")
    /\ mresp.kind = "result" /\ mresp.tools # {}

\* C6: fed the same requests, the two dispatchers answer each with the same
\* outcome class (result or error) and the same JSON-RPC error code.
C6_Parity ==
    (/\ mreq.jsonrpc = "2.0"
     /\ \/ mreq.method \in {"initialize", "tools/list", "resources/read", "unknown/method"}
        \/ /\ mreq.method = "tools/call"
           /\ mreq.params # None
           /\ Get(mreq.params).name # None
           /\ Get(Get(mreq.params).name) \in StandardRegistry)
    => (mresp.kind = hresp.kind /\ mresp.code = hresp.code)

\* C7: a tools/call with valid params whose tool execution fails is answered
\* with a result carrying the error text and isError = true, never with a
\* JSON-RPC error.
C7_ToolFailureIsContent ==
    (/\ Answered("tools/call") /\ mreq.before = "Initialized"
     /\ mreq.params # None
     /\ Get(mreq.params).name # None
     /\ Get(Get(mreq.params).name) \in StandardRegistry)
    => (mresp.kind = "result" /\ mresp.what = "content" /\ mresp.code = 0)

\* C8: every dispatched tools/call has recorded exactly one ToolCallEvent by
\* the time its response is returned, failures included, the event carrying
\* success = false and the error message when the call failed.
C8_EveryCallRecorded ==
    hresp.what = "content"
    => /\ event_history # <<>>
       /\ Head(event_history).id = evSeq
       /\ Head(event_history).success = ~hresp.isError
       /\ Head(event_history).content = hresp.text

\* C9: the history holds exactly the min(n, 100) most recently inserted
\* events, each once, newest first, and never more than 100.
C9_EventBounding ==
    /\ Len(event_history) = (IF evSeq < HISTORY_CAP THEN evSeq ELSE HISTORY_CAP)
    /\ \A i \in 1..Len(event_history) : event_history[i].id = evSeq - i + 1

\* all 150 events were recorded and the oldest 50 dropped
C9_Witness ==
    /\ evSeq = 150
    /\ Len(event_history) = HISTORY_CAP
    /\ event_history[HISTORY_CAP].id = 51

\* C10: a version-2.0 request for an undefined method is answered with a
\* JSON-RPC error of code -32601 by each dispatcher.
C10_MethodNotFound ==
    Answered("unknown/method")
    => /\ mresp.kind = "error" /\ mresp.code = 0 - 32601
       /\ hresp.kind = "error" /\ hresp.code = 0 - 32601

\* tools/call without params or without a string name
BadCallParams(r) ==
    r.method = "tools/call" /\ (r.params = None \/ Get(r.params).name = None)

\* resources/read without params, without a uri, or with a uri outside file://
BadReadParams(r) ==
    /\ r.method = "resources/read"
    /\ \/ r.params = None
       \/ Get(r.params).uri = None
       \/ strip_prefix(Get(Get(r.params).uri)) = None

\* C11: a tools/call without params or without a string name, and a
\* resources/read without a uri or with a uri outside file://, is answered by
\* each dispatcher with a JSON-RPC error of code -32602; no tool runs and no
\* ToolCallEvent is recorded.
C11_InvalidParams ==
    [][(/\ mreq'.jsonrpc = "2.0" /\ mreq'.before = "Initialized"
        /\ BadCallParams(mreq') \/ BadReadParams(mreq'))
       => /\ mresp'.kind = "error" /\ mresp'.code = 0 - 32602
          /\ hresp'.kind = "error" /\ hresp'.code = 0 - 32602
          /\ UNCHANGED <<event_history, evSeq, todos, builds, nextId>>]_vars

\* C12: a request whose jsonrpc field is not "2.0" is rejected by each
\* dispatcher with error -32600 carrying the request's id, before any
\* dispatch: the lifecycle state, the stores and the event history stay as
\* they were.
C12_WrongVersionRejected ==
    [][mreq'.jsonrpc \notin {"", "2.0"}
       => /\ mresp'.kind = "error" /\ mresp'.code = 0 - 32600 /\ mresp'.id = mreq'.id
          /\ hresp'.kind = "error" /\ hresp'.code = 0 - 32600 /\ hresp'.id = mreq'.id
          /\ UNCHANGED <<state, todos, notes, builds, nextId, cache, event_history, evSeq>>]_vars

\* an initialize with version "1.0" and an id was rejected by both
\* dispatchers and the server is still Uninitialized
C12_Witness ==
    /\ mreq.jsonrpc = "1.0" /\ mreq.method = "initialize" /\ mreq.id = Some(7)
    /\ mresp.code = 0 - 32600 /\ mresp.id = Some(7)
    /\ hresp.code = 0 - 32600 /\ hresp.id = Some(7)
    /\ state = "Uninitialized"

\* the k-th POST was made for the k-th line that parsed, in input order
PostsFollowInput ==
    LET parsed == SelectSeq([i \in 1..Len(pin) |-> [i |-> i, kind |-> pin[i].kind]],
                            LAMBDA l : l.kind = "request")
    IN  /\ Len(posts) = Len(parsed)
        /\ \A k \in 1..Len(posts) : posts[k].line = parsed[k].i

\* the output the lines from the i-th on call for, k POSTs having been made
\* for the lines before them
RECURSIVE ProxyOutputFrom(_, _)
ProxyOutputFrom(i, k) ==
    IF i > Len(pin) THEN <<>>
    ELSE CASE pin[i].kind = "blank" -> ProxyOutputFrom(i + 1, k)
           [] pin[i].kind = "invalid" -> <<"error -32700 id null">> \o ProxyOutputFrom(i + 1, k)
           [] OTHER ->
                (IF pin[i].id = "number" THEN <<posts[k + 1].outcome.text>> ELSE <<>>)
                    \o ProxyOutputFrom(i + 1, k + 1)

\* C13 (as claimed): every parseable line is forwarded as one POST; a request
\* without an id or with id null produces no output line, and a request with
\* a non-null id produces exactly one output line, which is the body of the
\* HTTP response to its POST, written before the next line is read.
C13_ProxyEchoesBody ==
    /\ PostsFollowInput
    /\ pout = ProxyOutputFrom(1, 0)
    /\ \A k \in 1..Len(posts) :
          pin[posts[k].line].id = "number" => posts[k].outcome.ok

\* C13 (amended): every parseable line is forwarded as one POST; a request
\* without an id or with id null produces no output line, and a request with
\* a non-null id produces exactly one output line, written before the next
\* line is read: the body of the HTTP response when the POST yielded one, and
\* the proxy's own -32603 error line with id null when it did not.
C13_ProxyForwarding ==
    /\ PostsFollowInput
    /\ pout = ProxyOutputFrom(1, 0)

\* a notification with id null was forwarded and left no line, and the
\* numbered request after it was answered with the body of its response
C13_Witness ==
    /\ Len(pin) = 2 /\ Len(posts) = 2
    /\ pin[1].kind = "request" /\ pin[1].id = "null"
    /\ pin[2].kind = "request" /\ pin[2].id = "number"
    /\ posts[2].outcome.ok
    /\ pout = <<posts[2].outcome.text>>

\* the lines read so far that are not empty, in input order
AnsweredLines == SelectSeq(stdin, LAMBDA l : l.kind \notin {"empty", "eof"})

C15_BatchAnswered ==
    \A j \in 1..Len(AnsweredLines) :
        AnsweredLines[j].kind = "batch"
        => /\ stdout[j].kind = "batch"
           /\ Len(stdout[j].items) = Len(AnsweredLines[j].reqs)

\* the ids in S, smallest first
RECURSIVE Ascending(_)
Ascending(S) ==
    IF S = {} THEN <<>>
    ELSE LET m == CHOOSE x \in S : \A y \in S : x <= y
         IN  <<m>> \o Ascending(S \ {m})

\* the events recorded since receiver s was made, in recording order
RecordedSince(s) == Ascending((1..evSeq) \ receivers[s].missed)

\* C16: once a subscriber is connected its stream never ends, and what it
\* has been delivered is, in order and without a gap, the events recorded
\* since, however many were recorded before it read them.
C16_SubscriberSeesAll ==
    \A s \in Subscribers :
        receivers[s].status # "none"
        => /\ receivers[s].status = "open"
           /\ Len(receivers[s].got) <= Len(RecordedSince(s))
           /\ receivers[s].got = SubSeq(RecordedSince(s), 1, Len(receivers[s].got))

\* C17: a receiver obtained by subscribe() is never delivered an event whose
\* recording was over before the subscribe() call; those events are in the
\* history.
C17_NoReplay ==
    \A s \in Subscribers :
        /\ \A i \in 1..Len(receivers[s].got) : receivers[s].got[i] \notin receivers[s].missed
        /\ \A id \in receivers[s].missed :
              \E i \in 1..Len(event_history) : event_history[i].id = id

\* the channel still held an event recorded before the second receiver was
\* made, and that receiver has been delivered a later one
C17_Witness ==
    /\ \E i \in 1..Len(event_sender) : event_sender[i] \in receivers["sse2"].missed
    /\ receivers["sse2"].got # <<>>

\* C18: record_event always completes and always updates the history, with
\* no subscriber and with a subscriber that never reads: the event is at the
\* head of the history when the lock is released, and the send that follows
\* is never kept waiting.
C18_RecordNeverBlocks ==
    /\ [](\A r \in Recorders : rec[r] = "send" => ENABLED RecordFinish(r))
    /\ [][\A r \in Recorders :
            (rec[r] = "idle" /\ rec'[r] = "send")
            => (event_history' # <<>> /\ event_history'[1].id = pending'[r])]_vars
    /\ \A r \in Recorders : (rec[r] = "send") ~> (rec[r] = "idle")

\* the subscriber has read nothing, the channel has overwritten values it
\* never saw, and every record_event call has returned
C18_Witness ==
    /\ receivers["sse1"].status = "open"
    /\ Len(event_sender) - receivers["sse1"].next > ChannelSlots
    /\ (\A r \in Recorders : rec[r] = "idle")
    /\ Len(event_history) = HISTORY_CAP

\* C19: for sequential calls, once get_project_store(id) has succeeded every
\* later get_project_store(id) is a cache hit that returns the same shared
\* instance: nothing is constructed and the cache entry for id never changes.
C19_CacheHitIsStable ==
    /\ [][\A p \in DOMAIN cache : p \in DOMAIN cache' /\ cache'[p] = cache[p]]_vars
    /\ [][(last'.op = "get_project_store" /\ last'.project \in DOMAIN cache)
          => (last'.ok /\ last'.id = cache[last'.project] /\ cache' = cache)]_vars

\* a todo went into the store of alpha, and a later get_project_store("alpha")
\* returned the instance the cache holds
C19_Witness ==
    /\ todos["alpha"] # {}
    /\ last.op = "get_project_store" /\ last.project = "alpha" /\ last.ok
    /\ last.id = cache["alpha"] /\ cache["alpha"] # cache["default"]

C21_RacingFirstAccess ==
    [][\A t \in Callers :
          (opening[t].stage = "miss" /\ opening'[t].stage = "created") =>
             /\ opening'[t].ok
             /\ \A u \in Callers \ {t} : opening'[t].store # opening'[u].store
             /\ opening'[t].store \notin {cache[p] : p \in DOMAIN cache}
             /\ cache'[opening[t].project] = opening'[t].store
             /\ \A p \in DOMAIN cache \ {opening[t].project} :
                   p \in DOMAIN cache' /\ cache'[p] = cache[p]
      ]_vars

\* both commands took the miss path for alpha and hold distinct instances;
\* the cache holds the one of cmd2 and the one of cmd1 is in no entry
C21_Witness ==
    /\ \A t \in Callers : opening[t].stage = "created" /\ opening[t].project = "alpha"
    /\ opening["cmd1"].store # opening["cmd2"].store
    /\ cache["alpha"] = opening["cmd2"].store
    /\ opening["cmd1"].store \notin {cache[p] : p \in DOMAIN cache}

\* C22: after AppState::new on an empty registry the project "default" is
\* registered and its store cached; the registry holds "default" ever after;
\* every later AppState::new succeeds and changes neither the registry nor
\* any project's tables.
C22_DefaultProject ==
    /\ registry = {"default"} /\ "default" \in DOMAIN cache
    /\ []("default" \in registry)
    /\ [][(last'.op = "new") =>
            (last'.ok /\ registry' = registry /\ UNCHANGED <<todos, notes, builds>>)
         ]_vars

\* a later start has found "default" and "alpha" registered and succeeded,
\* with nothing created and the cache of the new process empty
C22_Witness ==
    /\ last.op = "new" /\ last.ok
    /\ registry = {"default", "alpha"}
    /\ cache = [p \in {} |-> 0]

\* the list P's store returns: the rows of the todos table of P's db file
ListOf(project_id) == todos[db_path(project_id)]

\* C23: for any two distinct registered projects P1 and P2, whatever
\* create_project calls made them, a todo added through P1's store does not
\* change the list P2's store returns.
C23_ProjectIsolation ==
    [][\A P1 \in registry, P2 \in registry :
          (P1 # P2 /\ last'.op = "add" /\ last'.ok /\ last'.project = P1)
          => ListOf(P2)' = ListOf(P2)
      ]_vars

----------------------------------------------------------------------------
(* The ordered store, call by call *)

\* list(): SELECT .. ORDER BY position ASC, as the ids in that order; the
\* order is determined where no two rows share a position
ListIds(rows) ==
    [i \in 1..Cardinality(rows) |->
        (CHOOSE r \in rows : Cardinality({x \in rows : x.position < r.position}) = i - 1).id]

Without(seq, id) == SelectSeq(seq, LAMBDA x : x # id)
InsertAt(seq, index, id) ==
    SubSeq(seq, 1, index) \o <<id>> \o SubSeq(seq, index + 1, Len(seq))

\* the row a call left in place of row r: the same row but for its position
Repositioned(r, position) == [r EXCEPT !.position = position]

\* C24: a successful move_to(id, n) of the item at position c moves every
\* other item with c < position <= n down by one when n > c, every other item
\* with n <= position < c up by one when n < c, and leaves every other item as
\* it was; the item itself ends at n. Where the list has an index n (positions
\* are the indices 0..count-1 and n is one of them), that is the old list
\* with the item removed and re-inserted at index n.
C24_MoveTo ==
    [][(last'.op = "move_to" /\ last'.ok) =>
        LET old == todos[StoreProject]
            new == todos'[StoreProject]
            id == last'.id
            n == last'.new_position
            c == Get(find_position(old, id))
            Moved(r) ==
                IF r.id = id THEN n
                ELSE IF n > c /\ r.position > c /\ r.position <= n THEN r.position - 1
                ELSE IF n < c /\ r.position >= n /\ r.position < c THEN r.position + 1
                ELSE r.position
        IN  /\ {[id |-> r.id, position |-> r.position, completed |-> r.completed] :
                    r \in new}
                 = {[id |-> r.id, position |-> Moved(r), completed |-> r.completed] :
                    r \in old}
            /\ \A r \in old : r.id # id => \E q \in new : q.id = r.id /\ q.updated_at = r.updated_at
            /\ (Contiguous(old) /\ n \in 0..(Cardinality(old) - 1)) =>
                   ListIds(new) = InsertAt(Without(ListIds(old), id), n, id)
      ]_vars

\* add A, B, C, then move_to(A, 2): the list is B@0, C@1, A@2
C24_Witness ==
    /\ last.op = "move_to" /\ last.ok /\ last.id = 1 /\ last.new_position = 2
    /\ {[id |-> r.id, position |-> r.position] : r \in todos[StoreProject]}
         = {[id |-> 2, position |-> 0], [id |-> 3, position |-> 1],
            [id |-> 1, position |-> 2]}

\* C25: a successful move_to(id, p) whose p is the position the item already
\* has leaves the table as it was: every field of every row, the positions
\* and the updated_at of the moved row included.
C25_MoveToSamePosition ==
    [][(/\ last'.op = "move_to" /\ last'.ok
        /\ find_position(todos[StoreProject], last'.id) = Some(last'.new_position))
       => todos' = todos
      ]_vars

\* move_to to its own position has succeeded on a row that still carries the
\* updated_at of its INSERT, next to another row
C25_Witness ==
    /\ last.op = "move_to" /\ last.ok
    /\ Cardinality(todos[StoreProject]) = 2
    /\ \E r \in todos[StoreProject] :
          r.id = last.id /\ r.position = last.new_position /\ r.updated_at = "created_at"

\* C27: add with the position omitted stores the new item at the largest
\* stored position + 1 (0 on an empty store) and moves nothing; add with
\* position p moves every stored item whose position is >= p up by one, leaves
\* the others in place and stores the new item at p; the record add returns
\* carries the stored position and completed = false.
C27_Add ==
    [][(last'.op = "add" /\ last'.ok) =>
        LET old == todos[StoreProject]
            new == todos'[StoreProject]
            stored == {r \in new : r.id = last'.id}
            target == IF last'.posOpt # None THEN Get(last'.posOpt)
                      ELSE IF old = {} THEN 0
                      ELSE SetMax(Positions(old)) + 1
        IN  /\ stored = {last'.item}
            /\ last'.item.position = target
            /\ last'.item.completed = FALSE
            /\ new \ stored =
                  {Repositioned(r, IF r.position >= target THEN r.position + 1
                                   ELSE r.position) : r \in old}
            /\ last'.posOpt = None => new \ stored = old
      ]_vars

\* add with an explicit position has pushed one stored item up and left
\* another one below it in place
C27_Witness ==
    /\ last.op = "add" /\ last.ok /\ last.posOpt = Some(1)
    /\ {[id |-> r.id, position |-> r.position] : r \in todos[StoreProject]}
         = {[id |-> 1, position |-> 0], [id |-> 3, position |-> 1],
            [id |-> 2, position |-> 2]}

\* C28: remove(id) of an id no row has fails with the not-found error and
\* leaves the table as it was; remove(id) of a stored id succeeds, deletes
\* that row, moves every row whose position was greater down by one and
\* leaves every other row as it was.
C28_Remove ==
    [][(last'.op = "remove") =>
        LET old == todos[StoreProject]
            new == todos'[StoreProject]
            removed == {r \in old : r.id = last'.id}
        IN  /\ last'.ok <=> removed # {}
            /\ ~last'.ok => new = old
            /\ last'.ok =>
                  new = {Repositioned(r, IF r.position > Get(removed).position
                                         THEN r.position - 1 ELSE r.position) :
                            r \in old \ removed}
      ]_vars

\* the first of three items was removed and the other two moved down
C28_Witness ==
    /\ last.op = "remove" /\ last.ok /\ last.id = 1
    /\ {[id |-> r.id, position |-> r.position] : r \in todos[StoreProject]}
         = {[id |-> 2, position |-> 0], [id |-> 3, position |-> 1]}

\* C29: get_next returns an item that is not completed and that no other
\* not-completed item precedes, returns none exactly when every stored item is
\* completed (an empty store included), and changes nothing; set_completed(id, b)
\* of a stored id sets that row's completed to b, may change that row's
\* updated_at and changes nothing else; of an id no row has it fails and
\* leaves the table as it was.
C29_NextAndComplete ==
    [][/\ (last'.op = "get_next") =>
            LET rows == todos[StoreProject]
                found == {r \in rows : r.id = last'.id}
            IN  /\ todos' = todos
                /\ last'.ok
                /\ last'.id = 0 <=> \A r \in rows : r.completed
                /\ last'.id # 0 =>
                      /\ found # {}
                      /\ ~Get(found).completed
                      /\ \A r \in rows : ~r.completed => Get(found).position <= r.position
       /\ (last'.op = "set_completed") =>
            LET old == todos[StoreProject]
                new == todos'[StoreProject]
                target == {r \in old : r.id = last'.id}
            IN  /\ last'.ok <=> target # {}
                /\ ~last'.ok => new = old
                /\ last'.ok =>
                      /\ {r \in new : r.id # last'.id} = old \ target
                      /\ \E u \in {"created_at", "later"} :
                            {r \in new : r.id = last'.id}
                              = {[Get(target) EXCEPT !.completed = last'.completed,
                                                      !.updated_at = u]}
      ]_vars

\* get_next passed over a completed first item and returned the second
C29_Witness ==
    /\ last.op = "get_next" /\ last.id # 0
    /\ \E r \in todos[StoreProject] :
          r.completed /\ \E x \in todos[StoreProject] : x.id = last.id /\ r.position < x.position

----------------------------------------------------------------------------
(* The build-command store, call by call *)

Flagged(rows) == {r \in rows : r.is_default}

\* C26: BuildCommandStore::add stores the new row with is_default = true
\* exactly when no stored row is flagged at the time of the call, and leaves
\* every stored row, its flag included, as it was.
C26_AddDefaults ==
    [][(last'.op = "build_add") =>
        LET old == builds[StoreProject]
            new == builds'[StoreProject]
            added == {r \in new : r.id = last'.id}
        IN  /\ Cardinality(added) = 1
            /\ Get(added).is_default <=> Flagged(old) = {}
            /\ new \ added = old
      ]_vars

\* an add on a store that held rows, none of them flagged (the flagged row
\* was removed, or a set_default failed), has stored a default row
C26_Witness ==
    /\ last.op = "build_add"
    /\ Cardinality(builds[StoreProject]) >= 2
    /\ Flagged(builds[StoreProject]) = {r \in builds[StoreProject] : r.id = last.id}

\* C30: after a successful set_default(id) exactly one row is flagged, it is
\* the row id, and get_default() returns it.
C30_SetDefault ==
    (last.op = "set_default" /\ last.ok) =>
        /\ Cardinality(Flagged(builds[StoreProject])) = 1
        /\ \A r \in Flagged(builds[StoreProject]) : r.id = last.id
        /\ get_default(builds[StoreProject]) # None
        /\ Get(get_default(builds[StoreProject])).id = last.id

\* set_default has flagged a row that is neither the oldest nor the newest
C30_Witness ==
    /\ last.op = "set_default" /\ last.ok
    /\ \E r \in builds[StoreProject] : r.id < last.id
    /\ \E r \in builds[StoreProject] : r.id > last.id
    /\ Get(get_default(builds[StoreProject])).id = last.id

\* C31: set_default(id) fails, with the not-found error, exactly when no row
\* has that id, and a failed set_default leaves no row flagged, so that
\* get_default() returns none: the flags were cleared before the row was
\* looked for.
C31_FailedSetDefaultClears ==
    (last.op = "set_default") =>
        /\ last.ok <=> \E r \in builds[StoreProject] : r.id = last.id
        /\ ~last.ok =>
              /\ Flagged(builds[StoreProject]) = {}
              /\ get_default(builds[StoreProject]) = None

\* a set_default has failed on a store that holds rows, and none is flagged
C31_Witness ==
    /\ last.op = "set_default" /\ ~last.ok
    /\ Cardinality(builds[StoreProject]) >= 2
    /\ Flagged(builds[StoreProject]) = {}

\* two rows share a position and `missing` are the positions of 0..count-1
\* that no row has
ClashAndMissing(rows, missing) ==
    /\ \E a \in rows, b \in rows : a.id # b.id /\ a.position = b.position
    /\ (0..(Cardinality(rows) - 1)) \ Positions(rows) = missing

\* the step of task t is the first write of a call `op` on a contiguous store
FirstWrite(t, op) ==
    /\ running[t].op = op /\ running[t].pc \in {"shift", "delete"}
    /\ running'[t].pc = "write"
    /\ Contiguous(todos[StoreProject])

\* C32 (as claimed): a move_to(id, n) with n different from the current
\* position that is interrupted after its range shift leaves two items
\* sharing one position and one position of 0..count-1 missing, a remove
\* interrupted after its delete leaves a gap, and the fault undoes nothing.
C32_InterruptedCall ==
    [][/\ FirstWrite("cmd1", "move_to") =>
             \E n \in 0..(Cardinality(todos[StoreProject]) - 1) :
                ClashAndMissing(todos'[StoreProject], {n})
       /\ FirstWrite("cmd1", "remove") => ~Contiguous(todos'[StoreProject])
       /\ last'.op = "fault" => todos' = todos]_vars

\* C32 (amended): on a contiguous store of count items, a move_to(id, n) with
\* n in 0..count-1 and different from the current position c that is
\* interrupted after its range shift leaves two items at position c and no
\* item at position n; a remove of an item that is not the last, interrupted
\* after its delete, leaves no item at the position of the removed one while
\* later items keep theirs; the fault undoes nothing.
C32_InterruptedCallInRange ==
    [][LET count == Cardinality(todos[StoreProject])
           call == running["cmd1"]
       IN  /\ (FirstWrite("cmd1", "move_to") /\ call.position \in 0..(count - 1)) =>
                 /\ ClashAndMissing(todos'[StoreProject], {call.position})
                 /\ Cardinality({r \in todos'[StoreProject] :
                                    r.position = Get(call.cur)}) = 2
           /\ (FirstWrite("cmd1", "remove") /\ Get(call.cur) < count - 1) =>
                 /\ ~Contiguous(todos'[StoreProject])
                 /\ Get(call.cur) \notin Positions(todos'[StoreProject])
                 /\ todos'[StoreProject] = {r \in todos[StoreProject] : r.id # call.id}
           /\ last'.op = "fault" => todos' = todos /\ running'["cmd1"] = NotRunning]_vars

\* the move_to(1, 1) that was cut short on the store 1@0, 2@1
C32_Witness ==
    /\ last.op = "fault" /\ last.id = 1
    /\ Cardinality(todos[StoreProject]) = 2
    /\ Positions(todos[StoreProject]) = {0}
    /\ \A r \in todos[StoreProject] : r.updated_at = "created_at"

\* C37: whenever no task-list call is in progress on the project (every
\* todo_add, todo_insert, todo_move and todo_remove made so far has
\* returned), no two items share a position and the positions are exactly
\* {0,...,count-1}.
C37_ConcurrentCallsKeepPositions ==
    (\A t \in Callers : running[t].pc = "idle") => Contiguous(todos[StoreProject])

\* C38: whenever no build-command call is in progress on the project (every
\* build_add_command and build_set_default made so far has returned), at most
\* one row has is_default = true.
C38_ConcurrentCallsKeepOneDefault ==
    (\A t \in Callers : running[t].pc = "idle")
        => Cardinality(Flagged(builds[StoreProject])) <= 1

\* C35: at most one server handle is installed and at most one server task
\* holds the listener, and an installed handle is that of the task that
\* holds it; a start_server that finds a handle installed returns running
\* without binding and without touching the handle, and no start_server
\* installs a handle over another; stop_server aborts the task of the
\* installed handle and removes the handle, after which is_server_running()
\* is false, and changes nothing when none is installed.
C35_ServerLifecycle ==
    /\ [](/\ Cardinality(http_server) <= 1 /\ Cardinality(serving) <= 1
          /\ http_server \subseteq serving)
    /\ [][LET starts == \/ \E t \in Callers :
                              running[t].pc = "idle" /\ running'[t].pc = "bind"
                        \/ last'.op = "start_server" /\ running' = running
               stops == last'.op = "stop_server" /\ running' = running
           IN  /\ (http_server # None /\ starts)
                     => /\ last'.op = "start_server" /\ last'.ok
                        /\ UNCHANGED <<http_server, serving, running, nextId>>
               /\ (http_server' # http_server /\ http_server' # None)
                     => http_server = None /\ http_server' = serving
               /\ stops
                     => /\ http_server' = None
                        /\ serving' = serving \ http_server
                        /\ http_server = None => UNCHANGED <<serving, nextId>>]_vars

\* stop_server has aborted the server the first start_server installed, and
\* the second start_server, which had found no handle, has since bound and
\* installed its own
C35_Witness ==
    /\ last.op = "start_server" /\ last.ok /\ last.id = 2
    /\ http_server = Some(2) /\ serving = {2}
    /\ \A t \in Callers : running[t].pc = "idle"

Envelope(resp, line) ==
    /\ resp.jsonrpc = "2.0"
    /\ resp.kind \in {"result", "error"}
    /\ resp.id = IF line.kind = "request" THEN line.id ELSE None
    /\ line.kind # "request" => resp.kind = "error"

\* C40: every response of either dispatcher has jsonrpc = "2.0", exactly one
\* of result and error, and the id of the request it answers; the response to
\* an input that could not be parsed as a request has id null.
C40_ResponseEnvelope ==
    LET lines == SelectSeq(stdin, LAMBDA l : l.kind \in {"request", "malformed", "batch"})
    IN  /\ Len(stdout) = Len(lines)
        /\ \A k \in 1..Len(lines) : Envelope(stdout[k], lines[k])
        /\ lines # <<>> => Envelope(hresp, lines[Len(lines)])

C40_Witness ==
    /\ Len(stdin) = 2 /\ Len(stdout) = 2
    /\ stdin[1].kind = "request" /\ stdin[1].id = Some(7)
    /\ mreq.jsonrpc = "1.0" /\ stdout[1].id = Some(7)
    /\ stdin[2].kind = "malformed" /\ stdout[2].id = None
    /\ hresp.code = 0 - 32700 /\ hresp.id = None

\* C39: whatever two events a subscriber has been delivered, it was delivered
\* them in the order in which record_event inserted them into the history
\* (event ids count the insertions).
C39_DeliveryFollowsHistory ==
    \A s \in Subscribers :
        \A i \in 1..Len(receivers[s].got), j \in 1..Len(receivers[s].got) :
            i < j => receivers[s].got[i] < receivers[s].got[j]

\* C36: on a store whose positions are exactly 0..count-1, an add with the
\* position omitted or within 0..count, a remove, and a move_to with a target
\* within 0..count-1 leave a store whose positions are exactly 0..count'-1,
\* and every item other than the one added or removed keeps its id and its
\* completed flag.
C36_InRangeKeepsContiguity ==
    [][LET old == todos[StoreProject]
           new == todos'[StoreProject]
           count == Cardinality(old)
           inRange ==
               \/ /\ last'.op = "add" /\ last'.ok
                  /\ (last'.posOpt = None \/ Get(last'.posOpt) \in 0..count)
               \/ last'.op = "remove"
               \/ /\ last'.op = "move_to"
                  /\ (~last'.ok \/ last'.new_position \in 0..(count - 1))
       IN  (Contiguous(old) /\ inRange) =>
              /\ Contiguous(new)
              /\ \A r \in old : r.id # last'.id =>
                    \E q \in new : q.id = r.id /\ q.completed = r.completed
              /\ \A q \in new : q.id # last'.id => \E r \in old : r.id = q.id
              /\ last'.op = "move_to" =>
                    {[id |-> r.id, completed |-> r.completed] : r \in new}
                     = {[id |-> r.id, completed |-> r.completed] : r \in old}
      ]_vars

\* the last of three items was moved to the front of a store in order
C36_Witness ==
    /\ last.op = "move_to" /\ last.ok /\ last.id = 3 /\ last.new_position = 0
    /\ {[id |-> r.id, position |-> r.position] : r \in todos[StoreProject]}
         = {[id |-> 3, position |-> 0], [id |-> 1, position |-> 1],
            [id |-> 2, position |-> 2]}

----------------------------------------------------------------------------
(* The lifecycle of the standalone server *)

\* C34: the state of the standalone dispatcher starts at Uninitialized and is
\* never ShuttingDown; the only change of state is from Uninitialized to
\* Initialized, made by an initialize request that is answered with a result;
\* a request answered with an error leaves the state it found.
C34_StateMonotonic ==
    /\ state = "Uninitialized"
    /\ [](state \in {"Uninitialized", "Initialized"})
    /\ [](mresp.kind = "error" => state = mreq.before)
    /\ [][state' # state =>
            /\ state = "Uninitialized" /\ state' = "Initialized"
            /\ mreq'.method = "initialize" /\ mreq'.jsonrpc = "2.0"
            /\ mresp'.kind = "result"
         ]_vars

\* after a successful initialize, a request was answered with an error and
\* the server is still Initialized
C34_Witness ==
    /\ state = "Initialized"
    /\ mreq.method = "unknown/method" /\ mreq.before = "Initialized"
    /\ mresp.kind = "error"

====
